---- MODULE Spec2Model ----
(***************************************************************************)
(* The coil-winder firmware: the command protocol server                   *)
(* (firmware/src/server.rs), the motion planner (firmware/src/motion.rs),  *)
(* the two bounded channels between them, the stepper driver and its PIO   *)
(* state machines (firmware/src/driver.rs), the G-code parser (gcode) and  *)
(* the streaming plan of the movement library.                             *)
(*                                                                         *)
(* Coordinates are the raw bits of a FixedU32<U10>: the value times 1024.  *)
(***************************************************************************)
EXTENDS Integers, Sequences, FiniteSets, TLC

(* ------------------------------ bounds -------------------------------- *)

\* Capacity of both channels in the model; the firmware's COMMAND_BUFFER_SIZE
\* is 32 (firmware/src/main.rs:43), both channels share it.
ChannelCapacity == 2

\* Lines (commands or unparsable text) the host sends in one run.
MaxLines == 4

\* Complete lines one socket read can deliver.
MaxChunk == 2

\* Connections the host opens in one run.
MaxConnections == 2

\* Planner coordinates range over 0 .. MaxCoord half-millimetres.
MaxCoord == 2

(* ----------------------------- constants ------------------------------ *)

\* motion.rs: const AXES
AXES == 3

\* UCoord = FixedU32<U10>: ten fractional bits.
FRAC_BITS == 10

ONE == 2 ^ FRAC_BITS

HALF == ONE \div 2

\* Index (1-based) of the feedrate in a command's target: target_pos.0[3].
FEED == AXES + 1

(* ------------------------------ commands ------------------------------ *)

None == [some |-> FALSE, val |-> 0]

Some(v) == [some |-> TRUE, val |-> v]

NoTarget == [i \in 1..FEED |-> None]

\* gcode::Command; the target of the commands that carry none is NoTarget.
Cmd(kind, target) == [kind |-> kind, target |-> target]

Home == Cmd("Home", NoTarget)

Stop == Cmd("Stop", NoTarget)

Dwell == Cmd("Dwell", NoTarget)

EnableAllSteppers == Cmd("EnableAllSteppers", NoTarget)

DisableAllSteppers == Cmd("DisableAllSteppers", NoTarget)

GetCurrentPosition == Cmd("GetCurrentPosition", NoTarget)

Park == Cmd("Park", NoTarget)

RapidMove(target) == Cmd("RapidMove", target)

LinearMove(target) == Cmd("LinearMove", target)

IsMove(c) == c.kind \in {"RapidMove", "LinearMove"}

\* Text the parser rejects, and a proper prefix of a line still being received.
Garbage == Cmd("Garbage", NoTarget)

Partial == Cmd("Partial", NoTarget)

(* ------------------------------ replies ------------------------------- *)

\* The format strings of the replies.
AckFmt == "(ack {})\n"

StopAckFmt == "(ack)\n"

DoneFmt == "(done {id})\n"

ParseFailedFmt == "(parse failed)!\n"

\* A reply: its format string and the id formatted into it (0: none).
AckMsg(id) == [fmt |-> AckFmt, id |-> id]

StopAckMsg == [fmt |-> StopAckFmt, id |-> 0]

DoneMsg(id) == [fmt |-> DoneFmt, id |-> id]

ParseFailedMsg == [fmt |-> ParseFailedFmt, id |-> 0]

(* ------------------------- fixed-point numbers ------------------------ *)

\* The element of a one-element set: names a result once, r \in {f(x)}.
Only(S) == CHOOSE r \in S : TRUE

\* INum = FixedI32<U10> and i32: the largest and the smallest raw value.
I32_MAX == 2147483647

I32_MIN == -I32_MAX - 1

\* saturating_cast between fixed-point types of ten fractional bits, on raw bits.
saturating_cast(n) ==
    IF n > I32_MAX THEN I32_MAX ELSE IF n < I32_MIN THEN I32_MIN ELSE n

\* i32::unsigned_abs and FixedI32::unsigned_abs, on raw bits.
unsigned_abs(n) == IF n < 0 THEN -n ELSE n

\* FixedI32::saturating_neg
saturating_neg(n) == IF n = I32_MIN THEN I32_MAX ELSE -n

\* Integer division that truncates toward zero, as Rust's / on integers.
TruncDiv(a, b) == IF a >= 0 THEN a \div b ELSE -((-a) \div b)

\* The / of two fixed-point numbers, on raw bits: (a << FRAC_BITS) / b
\* truncated toward zero, computed by long division (b > 0).
FixDiv(a, b) ==
    LET m == IF a >= 0 THEN a ELSE -a
        q == (m \div b) * ONE + ((m % b) * ONE) \div b
    IN  IF a >= 0 THEN q ELSE -q

\* Whether the product of a signed fixed-point number and a positive integer
\* leaves the i32 range.
MulIntOverflows(a, k) == unsigned_abs(a) > I32_MAX \div k

\* i32::wrapping_mul of a >= 0 by k, from the two 16-bit halves of a: the low
\* 32 bits of the product, read as a signed number.
WrappingMul(a, k) ==
    Only({IF hi >= 32768
          THEN (hi - 65536) * 65536 + (((a % 65536) * k) % 65536)
          ELSE hi * 65536 + (((a % 65536) * k) % 65536)
            : hi \in {((a \div 65536) * k + ((a % 65536) * k) \div 65536) % 65536}})

\* The * of a signed fixed-point number by an integer, on raw bits; a product
\* that leaves the i32 range wraps (a build with debug assertions panics
\* before it is used).
FixMulInt(a, k) ==
    IF ~MulIntOverflows(a, k)
    THEN a * k
    ELSE IF a >= 0
    THEN WrappingMul(a, k)
    ELSE IF WrappingMul(-a, k) = I32_MIN THEN I32_MIN ELSE -WrappingMul(-a, k)

\* The * of two unsigned fixed-point numbers, on raw bits: (a * b) >> FRAC_BITS,
\* from the whole and the fractional parts of a and b, so that no intermediate
\* value is wider than the product itself.
FixMul(a, b) ==
    (a \div ONE) * (b \div ONE) * ONE + (a \div ONE) * (b % ONE)
        + (a % ONE) * (b \div ONE) + ((a % ONE) * (b % ONE)) \div ONE

\* Whether r * r <= x as fixed-point numbers, that is r^2 <= x << FRAC_BITS on
\* raw bits.
SquareWithin(r, x) ==
    /\ (r \div ONE) * (r \div ONE) <= x \div ONE
    /\ \/ FixMul(r, r) < x
       \/ FixMul(r, r) = x /\ ((r % ONE) * (r % ONE)) % ONE = 0

\* No root of an i32 is above this: 1449 squared is more than 2^21.
MaxRoot == 1449 * ONE

\* The greatest r in lo .. hi whose square is within x, by bisection.
RECURSIVE SqrtBetween(_, _, _)
SqrtBetween(x, lo, hi) ==
    IF lo >= hi
    THEN lo
    ELSE IF SquareWithin((lo + hi + 1) \div 2, x)
         THEN SqrtBetween(x, (lo + hi + 1) \div 2, hi)
         ELSE SqrtBetween(x, lo, (lo + hi + 1) \div 2 - 1)

\* fixed_sqrt's FastSqrt::fast_sqrt on an unsigned fixed-point number: the
\* greatest fixed-point number whose square does not exceed x. A root is at
\* most 1 when x is, and at most x otherwise.
fast_sqrt(x) ==
    SqrtBetween(x, 0, IF x < ONE THEN ONE ELSE IF x < MaxRoot THEN x ELSE MaxRoot)

\* saturating_cast of a fixed-point number to i32: the fractional bits are
\* discarded, which rounds toward minus infinity.
to_i32(n) == saturating_cast(n \div ONE)

(* -------------------------------- axes -------------------------------- *)

\* motion::Axis, without max_accel: the unit and the two step sizes (raw bits).
Axis(unit, microns_per_step, degrees_per_step) ==
    [unit |-> unit, microns_per_step |-> microns_per_step,
     degrees_per_step |-> degrees_per_step]

\* 1.8 degrees over 16 microsteps, as a UNum literal.
SixteenthStep == (1125 * ONE) \div 10000

\* The machine's axes: X and Z in millimetres at 12 and 6 microns per step,
\* C in rotations.
ScenarioAxes ==
    <<Axis("Millimeters", 12 * ONE, SixteenthStep),
      Axis("Millimeters", 6 * ONE, SixteenthStep),
      Axis("Rotations", 12 * ONE, SixteenthStep)>>

\* The machine's zero-limit switches: X and Z have one, C has none.
ScenarioZeroLimit == <<TRUE, TRUE, FALSE>>

(* ----------------------- PIO state machines --------------------------- *)

\* driver.rs: const PIO_TARGET_HZ
PIO_TARGET_HZ == 500000

\* driver.rs: const LOOP_OVERHEAD
LOOP_OVERHEAD == 4

\* Words a state machine's TX FIFO holds before wait_push suspends.
FifoDepth == 4

\* A state machine as Axis::new leaves it: disabled, its FIFO empty, at the
\* first instruction of its program, its IRQ flag clear.
SmIdle == [enabled |-> FALSE, tx |-> <<>>, run |-> "origin", irq |-> FALSE]

\* No home or do_move future exists.
NoFut ==
    [pc |-> "idle", kind |-> "none", n |-> 0, awaiting |-> {},
     steps |-> [i \in 1..AXES |-> 0], speeds |-> [i \in 1..AXES |-> 0]]

(* ------------------------------ libraries ---------------------------- *)

\* parse_single_command has not been called.
NotParsed == [st |-> "None"]

\* StreamingPlan::current_plan when it is None.
NoPlan == [some |-> FALSE]

\* Option<MotionSegment>: None, and Some(MotionSegment { dist, speed }).
NoSegment == [some |-> FALSE, dist |-> 0, speed |-> 0]

MotionSegment(dist, speed) == [some |-> TRUE, dist |-> dist, speed |-> speed]

\* StreamingPlan::new: at start_position, at rest, no plan, no pending target,
\* Idle, no waker. The other fields are history: item is what the latest call
\* of next returned, origin the position at which the current move started,
\* moved the sum of the distances yielded for it, finished whether finish was
\* called and no add_target polled since, polls the add_target polls so far.
NewPlan(start_position, max_accel) ==
    [current_position |-> start_position, current_velocity |-> 0,
     max_accel |-> max_accel, current_plan |-> NoPlan, pending_target |-> None,
     phase |-> "Idle", waker |-> FALSE,
     item |-> NoSegment, origin |-> start_position, moved |-> 0,
     finished |-> FALSE, polls |-> 0]

\* No Plan is being iterated on its own.
NoTrapezoid == [some |-> FALSE]

\* No client program is running.
NoClient == [some |-> FALSE]

\* No add_target future has been polled. flip changes at every poll.
NotPolled == [result |-> "None", target |-> 0, flip |-> FALSE]

(* ------------------------------- state -------------------------------- *)

VARIABLES
    spc,              \* server: where Server::run is suspended
    sock,             \* server: state of the connection's TcpSocket
    buf,              \* server: buf[..n], as lines (the last may be Partial)
    command,          \* server: the parsed command being dispatched
    command_id,       \* server: the id in hand (being sent, acked or reported done)
    command_id_gen,   \* Server::command_id_gen
    command_channel,  \* (CommandId, Command) pairs, server -> planner
    status_channel,   \* CommandFinished ids, planner -> server
    wire,             \* every write_all on the socket, with its outcome
    ppc,              \* planner: where State::run is suspended
    cur,              \* planner: the (command_id, command) received
    is_homed,         \* State::is_homed
    feedrate,         \* State::feedrate
    position,         \* State::position
    sleep_pin,        \* Driver::sleep_pin level
    axes,             \* State::axes: the configuration of each axis
    debug_assertions, \* build: whether an overflow panics (it wraps otherwise)
    steps,            \* planner: the steps of the latest do_move call
    speed,            \* planner: the speeds of the latest do_move or home call
    zero_limit,       \* Driver: whether each axis has a zero-limit pin
    configured_program, \* Driver::configured_program
    dir_pin,          \* Driver: level of each axis's direction pin
    sm,               \* PIO: each axis's state machine, its TX FIFO and IRQ flag
    fut,              \* Driver: the home or do_move future being polled
    input,            \* gcode: the bytes handed to parse_single_command
    parsed,           \* gcode: what parse_single_command returned for them
    plan,             \* movement: a StreamingPlan
    polled,           \* movement: the latest poll of an add_target future
    trapezoid,        \* movement: a Plan on its own, with the segments it emitted
    client,           \* host: the client program in Run mode, and its connection
    prev,             \* history: the planner's State when cur was received
    dropped,          \* history: ids removed from the channel by a Stop
    spared,           \* history: ids being executed when a Stop removed others
    lines,            \* history: lines the host has sent so far
    conns             \* history: connections accepted so far

server_vars == <<spc, sock, buf, command, command_id, command_id_gen>>

driver_vars == <<zero_limit, configured_program, dir_pin, sm, fut>>

\* The state of the two libraries checked on their own: gcode and movement.
lib_vars == <<input, parsed, plan, polled, trapezoid, client>>

\* Everything on the planner's side of the channels, which no step of the
\* server touches.
planner_vars == <<ppc, cur, is_homed, feedrate, position, sleep_pin, prev, axes,
                  debug_assertions, steps, speed, driver_vars, lib_vars>>

vars == <<spc, sock, buf, command, command_id, command_id_gen, command_channel,
          status_channel, wire, ppc, cur, is_homed, feedrate, position,
          sleep_pin, prev, axes, debug_assertions, steps, speed, zero_limit, configured_program,
          dir_pin, sm, fut, input, parsed, plan, polled, trapezoid, client, dropped, spared,
          lines, conns>>

Zero == [i \in 1..AXES |-> 0]

\* Server::command_id_gen at construction.
InitialCommandIdGen == 0

\* State::new: feedrate is UCoord::lit("1").
InitialFeedrate == ONE

StateSnapshot ==
    [is_homed |-> is_homed, feedrate |-> feedrate, position |-> position,
     sleep_pin |-> sleep_pin]

NoCur == [id |-> 0, command |-> Stop]

Init ==
    /\ spc = "accept"
    /\ sock = "closed"
    /\ buf = <<>>
    /\ command = Stop
    /\ command_id = 0
    /\ command_id_gen = InitialCommandIdGen
    /\ command_channel = <<>>
    /\ status_channel = <<>>
    /\ wire = <<>>
    /\ ppc = "receive"
    /\ cur = NoCur
    /\ is_homed = FALSE
    /\ feedrate = InitialFeedrate
    /\ position = Zero
    /\ sleep_pin = "Low"
    /\ axes = ScenarioAxes
    /\ debug_assertions = FALSE
    /\ steps = Zero
    /\ speed = Zero
    /\ zero_limit = ScenarioZeroLimit
    /\ configured_program = "None"
    /\ dir_pin = [i \in 1..AXES |-> "Low"]
    /\ sm = [i \in 1..AXES |-> SmIdle]
    /\ fut = NoFut
    /\ input = <<>>
    /\ parsed = NotParsed
    /\ plan = NewPlan(0, ONE)
    /\ polled = NotPolled
    /\ trapezoid = NoTrapezoid
    /\ client = NoClient
    /\ prev = [is_homed |-> FALSE, feedrate |-> InitialFeedrate, position |-> Zero,
               sleep_pin |-> "Low"]
    /\ dropped = {}
    /\ spared = {}
    /\ lines = 0
    /\ conns = 0

(* ------------------------------ channels ------------------------------ *)

\* embassy_sync Channel: try_send succeeds while fewer than N entries are queued.
IsFull(ch) == Len(ch) >= ChannelCapacity

\* Clear leaving every queued entry in place.
ClearNothing(ch) == ch

\* Channel::clear.
Clear(ch) == <<>>

Ids(ch) == {ch[i].id : i \in 1..Len(ch)}

(* ------------------------------- parser ------------------------------- *)

\* gcode::parse_single_command on buf[..n], on lines instead of bytes: a line
\* that parses, text that cannot parse, or a prefix that needs more bytes.
parse_single_command(b) ==
    IF b = <<>> \/ Head(b) = Partial
    THEN [res |-> "Incomplete", remaining |-> b, command |-> Stop]
    ELSE IF Head(b) = Garbage
         THEN [res |-> "ParseFailed", remaining |-> b, command |-> Stop]
         ELSE [res |-> "Ok", remaining |-> Tail(b), command |-> Head(b)]

(* -------------------------------- host -------------------------------- *)

\* The commands the host sends in the protocol specification.
HostCommands == {Home, Stop}

HostLines == HostCommands \cup {Garbage}

\* What one read delivers: 1 .. MaxChunk complete lines, or bytes of a line
\* whose end has not arrived.
Chunks == UNION {[1..k -> HostLines] : k \in 1..MaxChunk} \cup {<<Partial>>}

Complete(chunk) == Cardinality({i \in 1..Len(chunk) : chunk[i] # Partial})

\* The bytes read land after buf[..n]: they continue an unfinished line.
Extend(b, chunk) ==
    IF b # <<>> /\ b[Len(b)] = Partial
    THEN SubSeq(b, 1, Len(b) - 1) \o chunk
    ELSE b \o chunk

(* ------------------------------- server ------------------------------- *)

\* socket.write_all(msg): ok, or an error on a connection that is gone.
WriteAll(msg, ok) ==
    /\ ok => sock \in {"open", "fin"}
    /\ wire' = Append(wire, [fmt |-> msg.fmt, id |-> msg.id, ok |-> ok])

\* continue 'accept: the socket is dropped and n starts again at 0.
ContinueAccept ==
    /\ spc' = "accept"
    /\ sock' = "closed"
    /\ buf' = <<>>
    /\ command' = Stop
    /\ command_id' = 0

\* gen_command_id reading the counter before it is incremented.
gen_command_id_post(gen) == [gen |-> gen + 1, id |-> gen]

\* Server::gen_command_id: the counter is incremented, then read.
gen_command_id(gen) == [gen |-> gen + 1, id |-> gen + 1]

\* socket.accept(PORT) returns Ok.
Accept ==
    /\ spc = "accept"
    /\ conns < MaxConnections
    /\ conns' = conns + 1
    /\ spc' = "select"
    /\ sock' = "open"
    /\ UNCHANGED <<buf, command, command_id, command_id_gen, command_channel,
                   status_channel, wire, planner_vars, dropped, spared, lines>>

\* socket.accept(PORT) returns Err: warn and accept again.
AcceptError ==
    /\ spc = "accept"
    /\ UNCHANGED vars

\* The 'read_command loop from its parse on, over the bytes b now buffered.
ReadCommandLoop(b) ==
    LET r == parse_single_command(b)
    IN  /\ spc' = CASE r.res = "Ok" -> "dispatch"
                    [] r.res = "Incomplete" -> "read_command"
                    [] r.res = "ParseFailed" -> "parse_failed"
        /\ buf' = r.remaining
        /\ command' = r.command
        /\ command_id' = 0

\* The select resolves to the socket read (polled first).
SelectRead ==
    /\ spc = "select"
    /\ \/ /\ sock = "open"
          /\ \E chunk \in Chunks :
                /\ lines + Complete(chunk) <= MaxLines
                /\ lines' = lines + Complete(chunk)
                /\ ReadCommandLoop(Extend(buf, chunk))
          /\ sock' = sock
       \/ /\ sock \in {"open", "fin"}
          /\ sock' = "fin"
          /\ ReadCommandLoop(buf)
          /\ lines' = lines
       \/ /\ sock \in {"open", "reset"}
          /\ ContinueAccept
          /\ lines' = lines
    /\ UNCHANGED <<command_id_gen, command_channel, status_channel, wire,
                   planner_vars, dropped, spared, conns>>

\* Commands a pipelining host sends without waiting for replies: as many as
\* both channels hold, and one more for each task to have in hand.
PipelinedLines == 2 * ChannelCapacity + 2

\* The select resolves to the socket read on the connection of a host that
\* pipelines Home commands: the read delivers 1 .. MaxChunk of them.
PipelinedRead ==
    /\ spc = "select"
    /\ sock = "open"
    /\ \E k \in 1..MaxChunk :
          /\ lines + k <= PipelinedLines
          /\ lines' = lines + k
          /\ ReadCommandLoop(Extend(buf, [i \in 1..k |-> Home]))
    /\ sock' = sock
    /\ UNCHANGED <<command_id_gen, command_channel, status_channel, wire,
                   planner_vars, dropped, spared, conns>>

\* The read inside 'read_command, after an Incomplete parse.
ReadMore ==
    /\ spc = "read_command"
    /\ \/ /\ sock = "open"
          /\ \E chunk \in Chunks :
                /\ lines + Complete(chunk) <= MaxLines
                /\ lines' = lines + Complete(chunk)
                /\ ReadCommandLoop(Extend(buf, chunk))
          /\ sock' = sock
       \/ /\ ContinueAccept
          /\ lines' = lines
    /\ UNCHANGED <<command_id_gen, command_channel, status_channel, wire,
                   planner_vars, dropped, spared, conns>>

\* WriteParseFailed that also empties the command channel.
WriteParseFailedClears ==
    /\ spc = "parse_failed"
    /\ \E ok \in BOOLEAN : WriteAll(ParseFailedMsg, ok)
    /\ ContinueAccept
    /\ command_channel' = <<>>
    /\ UNCHANGED <<command_id_gen, status_channel, planner_vars, dropped, spared,
                   lines, conns>>

\* ParseFailed arm: the reply is written and the connection dropped either way.
WriteParseFailed ==
    /\ spc = "parse_failed"
    /\ \E ok \in BOOLEAN : WriteAll(ParseFailedMsg, ok)
    /\ ContinueAccept
    /\ UNCHANGED <<command_id_gen, command_channel, status_channel,
                   planner_vars, dropped, spared, lines, conns>>

\* The select resolves to status_rx.receive(): the read was pending.
SelectStatus ==
    /\ spc = "select"
    /\ sock = "open"
    /\ status_channel # <<>>
    /\ command_id' = Head(status_channel)
    /\ status_channel' = Tail(status_channel)
    /\ spc' = "done"
    /\ UNCHANGED <<sock, buf, command, command_id_gen, command_channel, wire,
                   planner_vars, dropped, spared, lines, conns>>

\* (done id) is written; a write error is only logged.
WriteDone ==
    /\ spc = "done"
    /\ \E ok \in BOOLEAN :
          /\ WriteAll(DoneMsg(command_id), ok)
          /\ sock' = IF ok THEN sock ELSE "reset"
    /\ spc' = "select"
    /\ command_id' = 0
    /\ UNCHANGED <<buf, command, command_id_gen, command_channel, status_channel,
                   planner_vars, dropped, spared, lines, conns>>

\* Command::Stop arm: command_tx.clear().
DispatchStop ==
    /\ spc = "dispatch"
    /\ command = Stop
    /\ dropped' = dropped \cup Ids(command_channel)
    /\ spared' = spared \cup (IF ppc = "execute" /\ command_channel # <<>>
                               THEN {cur.id}
                               ELSE {})
    /\ command_channel' = Clear(command_channel)
    /\ spc' = "stop_ack"
    /\ UNCHANGED <<sock, buf, command, command_id, command_id_gen, status_channel,
                   wire, planner_vars, lines, conns>>

\* (ack) is written; a write error drops the connection.
WriteStopAck ==
    /\ spc = "stop_ack"
    /\ \E ok \in BOOLEAN :
          /\ WriteAll(StopAckMsg, ok)
          /\ IF ok
             THEN /\ spc' = "select"
                  /\ UNCHANGED <<sock, buf>>
                  /\ command' = Stop
                  /\ command_id' = 0
             ELSE ContinueAccept
    /\ UNCHANGED <<command_id_gen, command_channel, status_channel,
                   planner_vars, dropped, spared, lines, conns>>

\* DispatchCommand whose send never suspends: the entry is queued even when
\* the channel is full.
DispatchCommandNoSuspend ==
    /\ spc = "dispatch"
    /\ command # Stop
    /\ command_id_gen' = gen_command_id(command_id_gen).gen
    /\ command_id' = gen_command_id(command_id_gen).id
    /\ spc' = "ack"
    /\ command_channel' =
          Append(command_channel, [id |-> command_id', command |-> command])
    /\ UNCHANGED <<sock, buf, command, status_channel, wire, planner_vars,
                   dropped, spared, lines, conns>>

\* Any other command: the id is generated and the send polled; it completes
\* at once when the channel has room and suspends when it is full.
DispatchCommand ==
    /\ spc = "dispatch"
    /\ command # Stop
    /\ command_id_gen' = gen_command_id(command_id_gen).gen
    /\ command_id' = gen_command_id(command_id_gen).id
    /\ IF IsFull(command_channel)
       THEN /\ spc' = "send"
            /\ UNCHANGED command_channel
       ELSE /\ spc' = "ack"
            /\ command_channel' =
                  Append(command_channel, [id |-> command_id', command |-> command])
    /\ UNCHANGED <<sock, buf, command, status_channel, wire, planner_vars,
                   dropped, spared, lines, conns>>

\* The suspended send completes once the planner has made room.
SendResume ==
    /\ spc = "send"
    /\ ~IsFull(command_channel)
    /\ command_channel' =
          Append(command_channel, [id |-> command_id, command |-> command])
    /\ spc' = "ack"
    /\ UNCHANGED <<sock, buf, command, command_id, command_id_gen, status_channel,
                   wire, planner_vars, dropped, spared, lines, conns>>

\* WriteAck with the reply forgotten.
WriteAckForgotten ==
    /\ spc = "ack"
    /\ spc' = "select"
    /\ command' = Stop
    /\ command_id' = 0
    /\ UNCHANGED <<sock, buf, command_id_gen, command_channel, status_channel,
                   wire, planner_vars, dropped, spared, lines, conns>>

\* (ack id) is written; a write error is only logged.
WriteAck ==
    /\ spc = "ack"
    /\ \E ok \in BOOLEAN :
          /\ WriteAll(AckMsg(command_id), ok)
          /\ sock' = IF ok THEN sock ELSE "reset"
    /\ spc' = "select"
    /\ command' = Stop
    /\ command_id' = 0
    /\ UNCHANGED <<buf, command_id_gen, command_channel, status_channel,
                   planner_vars, dropped, spared, lines, conns>>

Server ==
    \/ Accept
    \/ AcceptError
    \/ SelectRead
    \/ ReadMore
    \/ WriteParseFailed
    \/ SelectStatus
    \/ WriteDone
    \/ DispatchStop
    \/ WriteStopAck
    \/ DispatchCommand
    \/ SendResume
    \/ WriteAck

(* ------------------------------- planner ------------------------------ *)

\* set_sleep with the pin's polarity inverted.
set_sleep_inverted(sleep) == IF sleep THEN "High" ELSE "Low"

\* Driver::set_sleep: the sleep pin is active low.
set_sleep(sleep) == IF sleep THEN "Low" ELSE "High"

\* MovePosition that zeroes the coordinate of an absent axis.
MovePositionZeroAbsent(p, target) ==
    [i \in 1..AXES |-> IF target[i].some THEN target[i].val ELSE 0]

\* The move arm's zip_with over position: a present target replaces the
\* coordinate, an absent one leaves it.
MovePosition(p, target) ==
    [i \in 1..AXES |-> IF target[i].some THEN target[i].val ELSE p[i]]

\* A move arm that never replaces the feedrate.
MoveFeedrateKept(f, target) == f

\* The move arm's feedrate update from target_pos.0[3].
MoveFeedrate(f, target) == IF target[FEED].some THEN target[FEED].val ELSE f

\* DisableAllSteppers and Home both zero every coordinate.
ZeroPosition(p) == [i \in 1..AXES |-> 0]

\* is_homed after the DisableAllSteppers arm.
DisabledIsHomed == FALSE

\* A Home arm that leaves is_homed false.
HomeLeavesUnhomed == FALSE

\* is_homed after the Home arm.
HomedIsHomed == TRUE

\* motion.rs diff: coord1 - coord2 as a signed number, saturating.
diff(coord1, coord2) ==
    IF coord1 > coord2
    THEN saturating_cast(coord1 - coord2)
    ELSE saturating_neg(saturating_cast(coord2 - coord1))

\* MoveDist that measures an absent axis from the origin.
MoveDistFromOrigin(p, target) ==
    [i \in 1..AXES |->
        LET d == IF target[i].some THEN diff(target[i].val, p[i]) ELSE diff(0, p[i])
        IN  IF i = AXES THEN saturating_neg(d) ELSE d]

\* The move arm's dist: per axis the signed distance to a present target,
\* INum::ZERO for an absent one; then dist[2] is negated.
MoveDist(p, target) ==
    [i \in 1..AXES |->
        LET d == IF target[i].some THEN diff(target[i].val, p[i]) ELSE 0
        IN  IF i = AXES THEN saturating_neg(d) ELSE d]

\* The move arm's steps closure, for one axis.
AxisSteps(dist, axis) ==
    IF axis.unit = "Millimeters"
    THEN to_i32(FixDiv(FixMulInt(dist, 1000), axis.microns_per_step))
    ELSE to_i32(FixDiv(FixMulInt(dist, 360), axis.degrees_per_step))

\* The steps the move arm passes to do_move.
MoveSteps(p, target, ax) ==
    [i \in 1..AXES |-> AxisSteps(MoveDist(p, target)[i], ax[i])]

\* StepsPerSecond::from_speeds. The feedrates of the model keep
\* millimeters_per_second * 1000 inside UCoord.
from_speeds(millimeters_per_second, microns_per_step) ==
    FixDiv(millimeters_per_second * 1000, microns_per_step) \div ONE

\* motion.rs: const HOME_SPEED
HOME_SPEED == 120 * ONE

\* The Home arm's speed: HOME_SPEED in steps per second for X and Z, 0 for an
\* axis in rotations. home takes no speed for C.
HomeSpeed(ax) ==
    [i \in 1..AXES |->
        IF i < AXES /\ ax[i].unit = "Millimeters"
        THEN from_speeds(HOME_SPEED, ax[i].microns_per_step)
        ELSE 0]

\* triangle_feedrate that takes the ratio the other way round.
triangle_feedrate_inverse(f, own, other) ==
    Only({FixDiv(f, fast_sqrt(FixMul(ratio, ratio) + ONE))
            : ratio \in {FixDiv(unsigned_abs(own), unsigned_abs(other))}})

\* x_fr and z_fr of the move arm: the feedrate over the root of
\* (other / own)^2 + 1.
triangle_feedrate(f, own, other) ==
    Only({FixDiv(f, fast_sqrt(FixMul(ratio, ratio) + ONE))
            : ratio \in {FixDiv(unsigned_abs(other), unsigned_abs(own))}})

\* c_speed of the move arm.
c_speed(f, ax) == from_speeds(f, ax[AXES].microns_per_step)

\* dur_s taken from the steps of X.
dur_s_of_x(st, f, ax) == FixDiv(unsigned_abs(st[1]), c_speed(f, ax))

\* dur_s of the move arm: UCoord::from_num scales both step counts by
\* 2^FRAC_BITS, so their quotient is that of the counts.
dur_s(st, f, ax) == FixDiv(unsigned_abs(st[AXES]), c_speed(f, ax))

\* UCoord holds whole parts below 2^22.
UCOORD_WHOLE == 4194304

\* Whether steps over dur_s leaves UCoord.
TimedSpeedOverflows(n, dur) == (unsigned_abs(n) * ONE) \div dur >= UCOORD_WHOLE

\* The speed of X or Z while C moves: its steps over dur_s as a UCoord, then
\* saturating_to_num, which discards the fraction. The whole part of the
\* quotient of two UCoords is the quotient of their raw bits; one that leaves
\* UCoord wraps (a build with debug assertions panics before it is used).
timed_speed(n, dur) == ((unsigned_abs(n) * ONE) \div dur) % UCOORD_WHOLE

\* The speeds the move arm passes to do_move.
MoveSpeed(dist, st, f, ax) ==
    IF dist[AXES] = 0
    THEN IF dist[2] = 0
         THEN <<from_speeds(f, ax[1].microns_per_step), 0, 0>>
         ELSE IF dist[1] = 0
         THEN <<0, from_speeds(f, ax[2].microns_per_step), 0>>
         ELSE <<from_speeds(triangle_feedrate(f, dist[1], dist[2]),
                            ax[1].microns_per_step),
                from_speeds(triangle_feedrate(f, dist[2], dist[1]),
                            ax[2].microns_per_step),
                0>>
    ELSE <<timed_speed(st[1], dur_s(st, f, ax)),
           timed_speed(st[2], dur_s(st, f, ax)),
           c_speed(f, ax)>>

\* Whether the move arm panics: in every build when it divides by a c_speed
\* or a dur_s of zero, and with debug assertions when dist * 1000 or
\* dist * 360 leaves INum or steps over dur_s leaves UCoord.
MovePanics(dist, st, f, ax) ==
    \/ /\ debug_assertions
       /\ \E i \in 1..AXES :
             MulIntOverflows(dist[i],
                             IF ax[i].unit = "Millimeters" THEN 1000 ELSE 360)
    \/ /\ dist[AXES] # 0
       /\ \/ c_speed(f, ax) = 0
          \/ dur_s(st, f, ax) = 0
          \/ /\ debug_assertions
             /\ \E i \in 1..2 : TimedSpeedOverflows(st[i], dur_s(st, f, ax))

\* Driver::configure_pio on the state machines: a change of program puts
\* every state machine at the first instruction of the new one.
configure_pio(m, which) ==
    IF configured_program = which
    THEN m
    ELSE [i \in 1..AXES |-> [m[i] EXCEPT !.run = "origin"]]

\* Driver::do_move's direction pins: low for negative steps, high for
\* positive, untouched for zero.
do_move_dir(d, st) ==
    [i \in 1..AXES |->
        IF st[i] < 0 THEN "Low" ELSE IF st[i] > 0 THEN "High" ELSE d[i]]

\* The state machines when do_move returns: its words consumed, its IRQs
\* taken, every state machine disabled by the closing batch.
do_move_done(m) ==
    [i \in 1..AXES |-> [configure_pio(m, "Steps")[i] EXCEPT
        !.enabled = FALSE, !.tx = <<>>, !.run = "origin", !.irq = FALSE]]

\* Driver::home's direction pins: low on every axis with a zero-limit pin.
home_dir(d) == [i \in 1..AXES |-> IF zero_limit[i] THEN "Low" ELSE d[i]]

\* The state machines when home returns: the axes with a zero-limit pin
\* enabled by its batch and left so, their speed word consumed, their IRQs
\* taken.
home_done(m) ==
    [i \in 1..AXES |->
        IF zero_limit[i]
        THEN [configure_pio(m, "Home")[i] EXCEPT
                !.enabled = TRUE, !.tx = <<>>, !.run = "origin", !.irq = FALSE]
        ELSE configure_pio(m, "Home")[i]]

\* PlannerReceive taking the newest queued command instead of the oldest.
PlannerReceiveNewest ==
    /\ ppc = "receive"
    /\ command_channel # <<>>
    /\ cur' = command_channel[Len(command_channel)]
    /\ command_channel' = SubSeq(command_channel, 1, Len(command_channel) - 1)
    /\ prev' = StateSnapshot
    /\ ppc' = "execute"
    /\ UNCHANGED <<server_vars, status_channel, wire, is_homed, feedrate,
                   position, sleep_pin, axes, debug_assertions, steps, speed, driver_vars, lib_vars, dropped,
                   spared, lines, conns>>

\* command_rx.receive() of motion.rs:112. The select begun on the line before
\* it is unfinished; the receive that feeds the match is this one.
PlannerReceive ==
    /\ ppc = "receive"
    /\ command_channel # <<>>
    /\ cur' = Head(command_channel)
    /\ command_channel' = Tail(command_channel)
    /\ prev' = StateSnapshot
    /\ ppc' = "execute"
    /\ UNCHANGED <<server_vars, status_channel, wire, is_homed, feedrate,
                   position, sleep_pin, axes, debug_assertions, steps, speed, driver_vars, lib_vars, dropped,
                   spared, lines, conns>>

\* The match on the command, up to the end of its awaits: the timer of a
\* Dwell, the IRQs of Home and of do_move. home awaits the IRQs of X and Z,
\* which fire only on an axis it started. A move arm that panics has updated
\* the feedrate and the position, and has not called do_move.
PlannerExecute ==
    /\ ppc = "execute"
    /\ cur.command.kind = "Home" => (zero_limit[1] /\ zero_limit[2])
    /\ LET kind == cur.command.kind
           target == cur.command.target
           moves == /\ cur.command.kind \in {"RapidMove", "LinearMove"}
                    /\ ~MovePanics(MoveDist(position, cur.command.target),
                                   MoveSteps(position, cur.command.target, axes),
                                   MoveFeedrate(feedrate, cur.command.target), axes)
       IN  /\ ppc' = IF kind = "Stop" THEN "receive"
                     ELSE IF kind \in {"RapidMove", "LinearMove"} /\ ~moves
                     THEN "panicked"
                     ELSE "publish"
           /\ sleep_pin' = CASE kind = "EnableAllSteppers" -> set_sleep(FALSE)
                             [] kind = "DisableAllSteppers" -> set_sleep(TRUE)
                             [] OTHER -> sleep_pin
           /\ is_homed' = CASE kind = "DisableAllSteppers" -> DisabledIsHomed
                            [] kind = "Home" -> HomedIsHomed
                            [] OTHER -> is_homed
           /\ position' = CASE kind \in {"DisableAllSteppers", "Home"} ->
                                  ZeroPosition(position)
                            [] kind \in {"RapidMove", "LinearMove"} ->
                                  MovePosition(position, target)
                            [] OTHER -> position
           /\ feedrate' = CASE kind \in {"RapidMove", "LinearMove"} ->
                                  MoveFeedrate(feedrate, target)
                            [] OTHER -> feedrate
           /\ steps' = CASE moves -> MoveSteps(position, target, axes)
                         [] OTHER -> steps
           /\ speed' = CASE moves -> MoveSpeed(MoveDist(position, target),
                                               MoveSteps(position, target, axes),
                                               MoveFeedrate(feedrate, target), axes)
                         [] kind = "Home" -> HomeSpeed(axes)
                         [] OTHER -> speed
           /\ configured_program' = CASE moves -> "Steps"
                                      [] kind = "Home" -> "Home"
                                      [] OTHER -> configured_program
           /\ dir_pin' = CASE moves ->
                                  do_move_dir(dir_pin, MoveSteps(position, target, axes))
                           [] kind = "Home" -> home_dir(dir_pin)
                           [] OTHER -> dir_pin
           /\ sm' = CASE moves -> do_move_done(sm)
                      [] kind = "Home" -> home_done(sm)
                      [] OTHER -> sm
    /\ UNCHANGED <<server_vars, command_channel, status_channel, wire, cur, prev,
                   axes, debug_assertions, zero_limit, fut, lib_vars, dropped,
                   spared, lines, conns>>

\* PlannerPublish sending nothing for a Home, as the Stop arm's continue does.
PlannerPublishSkipsHome ==
    /\ ppc = "publish"
    /\ ~IsFull(status_channel)
    /\ status_channel' = IF cur.command = Home
                         THEN status_channel
                         ELSE Append(status_channel, cur.id)
    /\ ppc' = "receive"
    /\ UNCHANGED <<server_vars, command_channel, wire, cur, is_homed, feedrate,
                   position, sleep_pin, prev, axes, debug_assertions, steps, speed, driver_vars, lib_vars, dropped,
                   spared, lines, conns>>

\* status_tx.send(CommandFinished(command_id)): suspends while the channel is full.
PlannerPublish ==
    /\ ppc = "publish"
    /\ ~IsFull(status_channel)
    /\ status_channel' = Append(status_channel, cur.id)
    /\ ppc' = "receive"
    /\ UNCHANGED <<server_vars, command_channel, wire, cur, is_homed, feedrate,
                   position, sleep_pin, prev, axes, debug_assertions, steps, speed, driver_vars, lib_vars, dropped,
                   spared, lines, conns>>

Planner ==
    \/ PlannerReceive
    \/ PlannerExecute
    \/ PlannerPublish

(* ------------------------------- driver ------------------------------ *)

\* Step counts a caller hands to do_move range over -MaxStepCount .. MaxStepCount.
MaxStepCount == 1

\* Everything but the driver and the state machines.
driver_frame ==
    <<server_vars, command_channel, status_channel, wire, ppc, cur, is_homed,
      feedrate, position, sleep_pin, prev, axes, debug_assertions, steps, speed, lib_vars, dropped,
      spared, lines, conns>>

\* StepsPerSecond::to_sleep_cyles_per_step
to_sleep_cyles_per_step(n) ==
    IF n = 0
    THEN PIO_TARGET_HZ
    ELSE IF PIO_TARGET_HZ \div n < LOOP_OVERHEAD
         THEN 0
         ELSE PIO_TARGET_HZ \div n - LOOP_OVERHEAD

\* The arguments of the calls: steps per axis, and speeds in steps per second.
DriverSteps == [1..AXES -> -MaxStepCount..MaxStepCount]

DriverSpeeds == {0, 125000}

\* The zero-limit pins a board can have: the machine's, one on every axis,
\* one on X alone.
ZeroLimitConfigs ==
    {ScenarioZeroLimit, <<TRUE, TRUE, TRUE>>, <<TRUE, FALSE, FALSE>>}

\* The state machine of axis i takes a word from its TX FIFO: the Steps
\* program pulls steps and then sleeps before it pulses, the Home program
\* pulls sleeps. Only an enabled state machine executes.
SmPull(i) ==
    /\ sm[i].enabled
    /\ configured_program \in {"Home", "Steps"}
    /\ sm[i].tx # <<>>
    /\ sm[i].run \in {"origin", "sleeps"}
    /\ sm' = [sm EXCEPT ![i].tx = Tail(@),
                        ![i].run = IF configured_program = "Steps" /\ @ = "origin"
                                   THEN "sleeps"
                                   ELSE "pulsing"]
    /\ UNCHANGED <<driver_frame, zero_limit, configured_program, dir_pin, fut>>

\* The state machine of axis i ends its pulses (its count reached, or the
\* zero-limit switch asserted), raises its IRQ and wraps to its first
\* instruction.
SmDone(i) ==
    /\ sm[i].enabled
    /\ sm[i].run = "pulsing"
    /\ sm' = [sm EXCEPT ![i].irq = TRUE, ![i].run = "origin"]
    /\ UNCHANGED <<driver_frame, zero_limit, configured_program, dir_pin, fut>>

\* Driver::home up to its first push: the Home program is selected. The
\* planner hands it two speeds.
HomeCall ==
    /\ fut.pc = "idle"
    /\ \E s \in DriverSpeeds :
          fut' = [NoFut EXCEPT !.pc = "push", !.kind = "home", !.speeds = <<s, s>>]
    /\ configured_program' = "Home"
    /\ sm' = configure_pio(sm, "Home")
    /\ UNCHANGED <<driver_frame, zero_limit, dir_pin>>

\* Driver::home, one turn of each_axis: an axis with a zero-limit pin gets its
\* direction set low and the next speed pushed; speeds.next().unwrap() panics
\* when the speeds are used up. fut.n counts the axes visited.
HomePush ==
    /\ fut.pc = "push"
    /\ fut.kind = "home"
    /\ fut.n < AXES
    /\ LET i == fut.n + 1
           taken == Cardinality({j \in 1..fut.n : zero_limit[j]})
       IN  IF ~zero_limit[i]
           THEN /\ fut' = [fut EXCEPT !.n = i]
                /\ UNCHANGED <<dir_pin, sm>>
           ELSE IF taken >= Len(fut.speeds)
           THEN /\ fut' = [fut EXCEPT !.pc = "panicked"]
                /\ dir_pin' = [dir_pin EXCEPT ![i] = "Low"]
                /\ UNCHANGED sm
           ELSE /\ Len(sm[i].tx) < FifoDepth
                /\ fut' = [fut EXCEPT !.n = i]
                /\ dir_pin' = [dir_pin EXCEPT ![i] = "Low"]
                /\ sm' = [sm EXCEPT ![i].tx =
                            Append(@, to_sleep_cyles_per_step(fut.speeds[taken + 1]))]
    /\ UNCHANGED <<driver_frame, zero_limit, configured_program>>

\* Driver::home's batch: restart and enable every axis with a zero-limit pin,
\* then join the IRQs of axes 0 and 1.
HomeBatch ==
    /\ fut.pc = "push"
    /\ fut.kind = "home"
    /\ fut.n = AXES
    /\ sm' = [i \in 1..AXES |-> [sm[i] EXCEPT !.enabled = @ \/ zero_limit[i]]]
    /\ fut' = [fut EXCEPT !.pc = "await", !.awaiting = {1, 2}]
    /\ UNCHANGED <<driver_frame, zero_limit, configured_program, dir_pin>>

\* Driver::home returning: both awaited IRQs were taken. The state machines
\* stay as they are.
HomeReturn ==
    /\ fut.pc = "await"
    /\ fut.kind = "home"
    /\ fut.awaiting = {}
    /\ fut' = NoFut
    /\ UNCHANGED <<driver_frame, zero_limit, configured_program, dir_pin, sm>>

\* Driver::do_move up to its first push: the Steps program is selected and
\* the direction pins follow the signs of the steps.
DoMoveCall ==
    /\ fut.pc = "idle"
    /\ \E st \in DriverSteps, s \in DriverSpeeds :
          /\ fut' = [NoFut EXCEPT !.pc = "push", !.kind = "do_move",
                                  !.steps = st, !.speeds = [i \in 1..AXES |-> s]]
          /\ dir_pin' = do_move_dir(dir_pin, st)
    /\ configured_program' = "Steps"
    /\ sm' = configure_pio(sm, "Steps")
    /\ UNCHANGED <<driver_frame, zero_limit>>

\* Driver::do_move, one wait_push: steps and then sleeps, axis after axis.
\* fut.n counts the words pushed; a full FIFO suspends the push.
DoMovePush ==
    /\ fut.pc = "push"
    /\ fut.kind = "do_move"
    /\ fut.n < 2 * AXES
    /\ LET i == fut.n \div 2 + 1
           word == IF fut.n % 2 = 0
                   THEN unsigned_abs(fut.steps[i])
                   ELSE to_sleep_cyles_per_step(fut.speeds[i])
       IN  /\ Len(sm[i].tx) < FifoDepth
           /\ sm' = [sm EXCEPT ![i].tx = Append(@, word)]
    /\ fut' = [fut EXCEPT !.n = @ + 1]
    /\ UNCHANGED <<driver_frame, zero_limit, configured_program, dir_pin>>

\* DoMoveBatch that joins the IRQs of X and Z only.
DoMoveBatchJoinTwo ==
    /\ fut.pc = "push"
    /\ fut.kind = "do_move"
    /\ fut.n = 2 * AXES
    /\ sm' = [i \in 1..AXES |-> [sm[i] EXCEPT !.enabled = TRUE]]
    /\ fut' = [fut EXCEPT !.pc = "await", !.awaiting = {1, 2}]
    /\ UNCHANGED <<driver_frame, zero_limit, configured_program, dir_pin>>

\* Driver::do_move's batch: restart and enable all three state machines in
\* one commit, then join3 the three IRQs.
DoMoveBatch ==
    /\ fut.pc = "push"
    /\ fut.kind = "do_move"
    /\ fut.n = 2 * AXES
    /\ sm' = [i \in 1..AXES |-> [sm[i] EXCEPT !.enabled = TRUE]]
    /\ fut' = [fut EXCEPT !.pc = "await", !.awaiting = 1..AXES]
    /\ UNCHANGED <<driver_frame, zero_limit, configured_program, dir_pin>>

\* irq.wait() of axis i inside the join: completes on the raised flag and
\* clears it.
IrqWait(i) ==
    /\ fut.pc = "await"
    /\ i \in fut.awaiting
    /\ sm[i].irq
    /\ sm' = [sm EXCEPT ![i].irq = FALSE]
    /\ fut' = [fut EXCEPT !.awaiting = @ \ {i}]
    /\ UNCHANGED <<driver_frame, zero_limit, configured_program, dir_pin>>

\* Driver::do_move returning: after the join, one batch disables the three
\* state machines and one restarts them.
DoMoveReturn ==
    /\ fut.pc = "await"
    /\ fut.kind = "do_move"
    /\ fut.awaiting = {}
    /\ sm' = [i \in 1..AXES |-> [sm[i] EXCEPT !.enabled = FALSE]]
    /\ fut' = NoFut
    /\ UNCHANGED <<driver_frame, zero_limit, configured_program, dir_pin>>

\* The do_move future of driver.rs dropped at its join3 (its pushes find room
\* in the FIFO and do not suspend): it holds no guard, nothing is undone. The
\* future is dropped with the task that awaits it, which makes no further call.
CancelDoMove ==
    /\ fut.kind = "do_move"
    /\ fut.pc = "await"
    /\ fut' = [NoFut EXCEPT !.pc = "dropped"]
    /\ UNCHANGED <<driver_frame, zero_limit, configured_program, dir_pin, sm>>

\* The do_move future of a4988.rs dropped at its join3: the OnDrop guard
\* clears the FIFOs of each state machine and executes a jump to address 0.
CancelDoMoveGuarded ==
    /\ fut.kind = "do_move"
    /\ fut.pc = "await"
    /\ sm' = [i \in 1..AXES |-> [sm[i] EXCEPT !.tx = <<>>, !.run = "origin"]]
    /\ fut' = [NoFut EXCEPT !.pc = "dropped"]
    /\ UNCHANGED <<driver_frame, zero_limit, configured_program, dir_pin>>

\* a4988.rs: StepsPerSecond::to_sleep_cyles_per_step, for n > 0. For n = 0
\* the division panics.
a4988_to_sleep_cyles_per_step(n) == PIO_TARGET_HZ \div n

\* Speeds of the calls whose words are compared with the encoding: 0, the
\* slowest, speeds whose quotient is above, at and below LOOP_OVERHEAD, and the
\* greatest the model's integers hold.
EncodedSpeeds == {0, 1, 100000, 125000, 200000, I32_MAX}

\* driver.rs do_move called with speeds over EncodedSpeeds.
EncodedDoMoveCall ==
    /\ fut.pc = "idle"
    /\ \E sp \in [1..AXES -> EncodedSpeeds] :
          fut' = [NoFut EXCEPT !.pc = "push", !.kind = "do_move",
                               !.steps = <<1, 0, -1>>, !.speeds = sp]
    /\ dir_pin' = do_move_dir(dir_pin, <<1, 0, -1>>)
    /\ configured_program' = "Steps"
    /\ sm' = configure_pio(sm, "Steps")
    /\ UNCHANGED <<driver_frame, zero_limit>>

\* a4988.rs do_move called with speeds over EncodedSpeeds: Driver::new has
\* configured the Steps program, the call sets the direction pins.
A4988DoMoveCall ==
    /\ fut.pc = "idle"
    /\ \E sp \in [1..AXES -> EncodedSpeeds] :
          fut' = [NoFut EXCEPT !.pc = "push", !.kind = "a4988_do_move",
                               !.steps = <<1, 0, -1>>, !.speeds = sp]
    /\ dir_pin' = do_move_dir(dir_pin, <<1, 0, -1>>)
    /\ configured_program' = "Steps"
    /\ UNCHANGED <<driver_frame, zero_limit, sm>>

\* a4988.rs do_move, one wait_push. The sleeps of an axis are computed before
\* its steps are pushed, and the division by a speed of zero panics.
A4988DoMovePush ==
    /\ fut.pc = "push"
    /\ fut.kind = "a4988_do_move"
    /\ fut.n < 2 * AXES
    /\ LET i == fut.n \div 2 + 1
       IN  IF fut.speeds[i] = 0
           THEN /\ fut' = [fut EXCEPT !.pc = "panicked"]
                /\ UNCHANGED sm
           ELSE /\ Len(sm[i].tx) < FifoDepth
                /\ sm' = [sm EXCEPT ![i].tx =
                            Append(@, IF fut.n % 2 = 0
                                      THEN unsigned_abs(fut.steps[i])
                                      ELSE a4988_to_sleep_cyles_per_step(fut.speeds[i]))]
                /\ fut' = [fut EXCEPT !.n = @ + 1]
    /\ UNCHANGED <<driver_frame, zero_limit, configured_program, dir_pin>>

Pio == \E i \in 1..AXES : SmPull(i) \/ SmDone(i)

Driver ==
    \/ HomeCall
    \/ HomePush
    \/ HomeBatch
    \/ HomeReturn
    \/ DoMoveCall
    \/ DoMovePush
    \/ DoMoveBatch
    \/ \E i \in 1..AXES : IrqWait(i)
    \/ DoMoveReturn

(* -------------------------------- gcode ------------------------------- *)

\* Coordinate and duration words of the lines are the digits 1 .. MaxDigit.
MaxDigit == 2

\* firmware main.rs: const AXIS_LABELS
AXIS_LABELS == <<"X", "Z", "C", "F">>

\* nom's IResult: Ok((rest, val)), Err(Error) and Err(Incomplete).
POk(rest, val) == [st |-> "Ok", rest |-> rest, val |-> val]

PError == [st |-> "Error"]

PIncomplete == [st |-> "Incomplete"]

\* Bytes are one-character strings; the decimal digits, in order.
DigitChars == <<"0", "1", "2", "3", "4", "5", "6", "7", "8", "9">>

Digits == {DigitChars[k] : k \in 1..10}

\* Whether txt begins with the bytes of code.
StartsWith(txt, code) ==
    /\ Len(txt) >= Len(code)
    /\ SubSeq(txt, 1, Len(code)) = code

\* u64::from_ascii and UCoord::from_ascii on a run of digits.
RECURSIVE from_ascii(_)
from_ascii(txt) ==
    IF txt = <<>>
    THEN 0
    ELSE 10 * from_ascii(SubSeq(txt, 1, Len(txt) - 1))
            + (CHOOSE k \in 0..9 : DigitChars[k + 1] = txt[Len(txt)])

\* nom::character::streaming::char
char(c, i) ==
    IF i = <<>> THEN PIncomplete
    ELSE IF Head(i) = c THEN POk(Tail(i), c) ELSE PError

\* nom::bytes::streaming::tag: a mismatch is an Error, an input that ends
\* inside the tag is Incomplete.
tag(code, i) ==
    IF StartsWith(i, code) THEN POk(SubSeq(i, Len(code) + 1, Len(i)), code)
    ELSE IF Len(i) < Len(code) /\ StartsWith(code, i) THEN PIncomplete
    ELSE PError

\* The length of the longest prefix of i made of bytes in S.
RECURSIVE CountWhile(_, _)
CountWhile(S, i) ==
    IF i # <<>> /\ Head(i) \in S THEN 1 + CountWhile(S, Tail(i)) ELSE 0

\* nom::bytes::complete::take_while1: at the end of the input it stops, and
\* with nothing taken it is an Error.
take_while1(S, i) ==
    Only({IF n = 0 THEN PError ELSE POk(SubSeq(i, n + 1, Len(i)), SubSeq(i, 1, n))
            : n \in {CountWhile(S, i)}})

\* nom::character::complete::multispace1
multispace1(i) == take_while1({" ", "\t", "\r", "\n"}, i)

\* nom::number::complete::recognize_float, on the bytes of the model: they
\* hold digits but no sign, point or exponent, so a float is a run of digits.
recognize_float(i) == take_while1(Digits, i)

\* parser::ucoord
ucoord(i) ==
    Only({IF r.st = "Ok" THEN POk(r.rest, from_ascii(r.val) * ONE) ELSE r
            : r \in {recognize_float(i)}})

\* parser::labeled_ucoord
labeled_ucoord(label, i) ==
    Only({IF c.st = "Ok" THEN ucoord(c.rest) ELSE c : c \in {char(label, i)}})

\* opt(preceded(take_while1(space or tab), labeled_ucoord(c))) of parser::upos:
\* an Error of either part yields None and consumes nothing, Incomplete
\* passes through.
opt_word(label, i) ==
    Only({IF ws.st # "Ok" THEN POk(i, None)
          ELSE Only({IF w.st = "Ok" THEN POk(w.rest, Some(w.val))
                     ELSE IF w.st = "Incomplete" THEN PIncomplete
                     ELSE POk(i, None)
                       : w \in {labeled_ucoord(label, ws.rest)}})
            : ws \in {take_while1({" ", "\t"}, i)}})

\* parser::upos from label k on, res holding the coordinates read so far.
RECURSIVE upos_from(_, _, _, _)
upos_from(coord_labels, k, i, res) ==
    IF k > Len(coord_labels)
    THEN POk(i, res)
    ELSE Only({IF w.st = "Ok"
               THEN upos_from(coord_labels, k + 1, w.rest, Append(res, w.val))
               ELSE w
                 : w \in {opt_word(coord_labels[k], i)}})

\* parser::upos
upos(coord_labels, i) == upos_from(coord_labels, 1, i, <<>>)

\* parser::upos in the place of non_empty_upos: an empty position is accepted.
possibly_empty_upos(coord_labels, i) == upos(coord_labels, i)

\* parser::non_empty_upos
non_empty_upos(coord_labels, i) ==
    Only({IF r.st # "Ok" THEN r
          ELSE IF \A k \in 1..Len(r.val) : ~r.val[k].some THEN PError
          ELSE r
            : r \in {upos(coord_labels, i)}})

\* parser::g and parser::m: the letter, then the code.
g(code, i) == Only({IF c.st = "Ok" THEN tag(code, c.rest) ELSE c : c \in {char("G", i)}})

m(code, i) == Only({IF c.st = "Ok" THEN tag(code, c.rest) ELSE c : c \in {char("M", i)}})

\* parser::non_empty_upos_g_command
non_empty_upos_g_command(g_code, coord_labels, kind, i) ==
    Only({IF c.st # "Ok" THEN c
          ELSE Only({IF r.st # "Ok" THEN r ELSE POk(r.rest, Cmd(kind, r.val))
                       : r \in {non_empty_upos(coord_labels, c.rest)}})
            : c \in {g(g_code, i)}})

\* Command::Dwell with its duration, in milliseconds.
DwellFor(millis) == [kind |-> "Dwell", target |-> NoTarget, millis |-> millis]

\* One alternative of parser::dwell: the letter, then a run of digits.
dwell_word(letter, unit, i) ==
    Only({IF c.st # "Ok" THEN c
          ELSE Only({IF d.st # "Ok" THEN d
                     ELSE POk(d.rest, DwellFor(from_ascii(d.val) * unit))
                       : d \in {take_while1(Digits, c.rest)}})
            : c \in {char(letter, i)}})

\* nom's alt of two results: the first that is not an Error.
alt(r1, r2) == IF r1.st # "Error" THEN r1 ELSE r2

\* parser::dwell
dwell(i) ==
    Only({IF c.st # "Ok" THEN c
          ELSE Only({IF ws.st # "Ok" THEN ws
                     ELSE alt(dwell_word("S", 1000, ws.rest), dwell_word("P", 1, ws.rest))
                       : ws \in {multispace1(c.rest)}})
            : c \in {g(<<"4">>, i)}})

\* nom's value: the command for a matched code.
value(cmd, r) == IF r.st = "Ok" THEN POk(r.rest, cmd) ELSE r

\* parser::command
command_parser(coord_labels, i) ==
    alt(non_empty_upos_g_command(<<"0">>, coord_labels, "RapidMove", i),
    alt(non_empty_upos_g_command(<<"1">>, coord_labels, "LinearMove", i),
    alt(dwell(i),
    alt(value(Stop, m(<<"0">>, i)),
    alt(value(EnableAllSteppers, m(<<"1", "7">>, i)),
    alt(value(DisableAllSteppers, m(<<"1", "8">>, i)),
        value(Home, g(<<"2", "8">>, i))))))))

\* gcode::parse_single_command on bytes: terminated(command, newline), an
\* Incomplete kept, every other error turned into ParseFailed.
parse_bytes(axis_labels, i) ==
    Only({IF c.st = "Incomplete" THEN [st |-> "Incomplete"]
          ELSE IF c.st = "Error" THEN [st |-> "ParseFailed"]
          ELSE Only({IF nl.st = "Incomplete" THEN [st |-> "Incomplete"]
                     ELSE IF nl.st = "Error" THEN [st |-> "ParseFailed"]
                     ELSE [st |-> "Ok", rest |-> nl.rest, command |-> c.val]
                       : nl \in {char("\n", c.rest)}})
            : c \in {command_parser(axis_labels, i)}})

\* The words of a move line: for each label of mask, in label order, a space,
\* the label and the digit d.
RECURSIVE Words(_, _, _)
Words(k, mask, d) ==
    IF k > Len(AXIS_LABELS)
    THEN <<>>
    ELSE (IF k \in mask THEN <<" ", AXIS_LABELS[k], d>> ELSE <<>>) \o Words(k + 1, mask, d)

\* The position those words denote.
WordsPos(mask, d) ==
    [k \in 1..Len(AXIS_LABELS) |->
        IF k \in mask THEN Some(from_ascii(<<d>>) * ONE) ELSE None]

WordDigits == {DigitChars[k + 1] : k \in 1..MaxDigit}

Masks == SUBSET (1..Len(AXIS_LABELS)) \ {{}}

\* The lines of the command grammar with the command each denotes: moves with
\* a non-empty position, the two dwells, park with or without a position,
\* home, stop, enable and disable.
Literals ==
    {[text |-> <<"G", "0">> \o Words(1, mk, d) \o <<"\n">>,
      command |-> RapidMove(WordsPos(mk, d))] : mk \in Masks, d \in WordDigits}
    \cup
    {[text |-> <<"G", "1">> \o Words(1, mk, d) \o <<"\n">>,
      command |-> LinearMove(WordsPos(mk, d))] : mk \in Masks, d \in WordDigits}
    \cup
    {[text |-> <<"G", "4", " ", "S", d, "\n">>,
      command |-> DwellFor(1000 * from_ascii(<<d>>))] : d \in WordDigits}
    \cup
    {[text |-> <<"G", "4", " ", "P", d, "\n">>,
      command |-> DwellFor(from_ascii(<<d>>))] : d \in WordDigits}
    \cup
    {[text |-> <<"G", "2", "7">> \o Words(1, mk, d) \o <<"\n">>,
      command |-> Park] : mk \in SUBSET (1..Len(AXIS_LABELS)), d \in WordDigits}
    \cup
    {[text |-> <<"G", "2", "8", "\n">>, command |-> Home],
     [text |-> <<"M", "0", "\n">>, command |-> Stop],
     [text |-> <<"M", "1", "7", "\n">>, command |-> EnableAllSteppers],
     [text |-> <<"M", "1", "8", "\n">>, command |-> DisableAllSteppers]}

\* Lines outside the grammar: moves without a word, words out of label order
\* or without their space, unknown codes, a dwell without its word.
OtherLines ==
    {<<"G", "0", "\n">>, <<"G", "1", "\n">>, <<"G", "0", " ", "\n">>,
     <<"G", "0", " ", "Z", "1", " ", "X", "1", "\n">>,
     <<"G", "0", "X", "1", "\n">>, <<"G", "2", "\n">>, <<"G", "2", "9", "\n">>,
     <<"M", "1", "\n">>, <<"M", "2", "\n">>, <<"G", "4", "\n">>,
     <<"G", "4", " ", "5", "\n">>, <<"X", "1", "\n">>, <<"\n">>}

Texts == {l.text : l \in Literals} \cup OtherLines

\* What a read can leave in buf[..n]: a line, or any prefix of one.
Inputs == UNION {{SubSeq(t, 1, n) : n \in 0..Len(t)} : t \in Texts}

\* Server::run's call of parse_single_command on the bytes read so far.
ParseInput ==
    /\ parsed = NotParsed
    /\ parsed' = parse_bytes(AXIS_LABELS, input)
    /\ UNCHANGED <<server_vars, command_channel, status_channel, wire, ppc, cur,
                   is_homed, feedrate, position, sleep_pin, prev, axes, debug_assertions, steps, speed,
                   driver_vars, input, plan, polled, trapezoid, client, dropped, spared, lines, conns>>

(* ------------------------------ movement ------------------------------ *)

\* add_target is polled at most MaxPolls times.
MaxPolls == 3

\* Positions handed to StreamingPlan::new and to add_target.
PlanTargets == {k * HALF : k \in 0..MaxCoord}

\* max_accel of the plans: 1 and 2 mm/s^2.
PlanAccels == {ONE, 2 * ONE}

\* movement::calculate_cruise_velocity
calculate_cruise_velocity(current_velocity, distance, max_accel) ==
    Only({IF v_max_squared > 0 THEN fast_sqrt(v_max_squared) ELSE 0
            : v_max_squared \in
                {FixMul(current_velocity, current_velocity)
                    + FixMul(FixMul(2 * ONE, max_accel), distance)}})

\* The distance between two positions, as Plan::new and Plan::next take it.
distance_to(target_position, current_position) ==
    IF target_position >= current_position
    THEN target_position - current_position
    ELSE current_position - target_position

\* Plan::new
Plan_new(current_position, current_velocity, target_position, max_accel) ==
    Only({[some |-> TRUE,
           current_position |-> current_position,
           current_velocity |-> current_velocity,
           target_position |-> target_position,
           max_accel |-> max_accel,
           phase |-> IF current_velocity < cruise_velocity THEN "Accelerating"
                     ELSE IF current_velocity > cruise_velocity THEN "Decelerating"
                     ELSE "Cruising",
           cruise_velocity |-> cruise_velocity]
            : cruise_velocity \in
                {calculate_cruise_velocity(
                    current_velocity,
                    distance_to(target_position, current_position), max_accel)}})

\* Plan::next's direction: 1 toward a target at or above the position, else -1.
direction(p) == IF p.target_position >= p.current_position THEN 1 ELSE -1

distance_remaining(p) == distance_to(p.target_position, p.current_position)

\* Plan::next returning None: the phase becomes Complete.
complete(p) == [plan |-> [p EXCEPT !.phase = "Complete"], item |-> NoSegment]

\* Plan::solve_quadratic_for_time
solve_quadratic_for_time(v0, a, d) ==
    Only({IF t > 0 THEN t ELSE 0
            : t \in {FixDiv(fast_sqrt(FixMul(v0, v0) + FixMul(FixMul(2 * ONE, a), d)) - v0,
                            a)}})

\* distance_to_accel of the Accelerating arm.
distance_to_accel(p) ==
    Only({FixMul(p.current_velocity, time_to_cruise)
            + FixMul(FixMul(FixMul(HALF, p.max_accel), time_to_cruise), time_to_cruise)
            : time_to_cruise \in
                {FixDiv(p.cruise_velocity - p.current_velocity, p.max_accel)}})

\* Plan::next, the Accelerating arm: one segment to the target when the ramp
\* reaches it, else the ramp and the phase Cruising.
accelerating(p) ==
    IF distance_remaining(p) <= 0
    THEN complete(p)
    ELSE Only({
        IF d >= distance_remaining(p)
        THEN Only({
            [plan |-> [p EXCEPT !.current_position = p.target_position,
                                !.current_velocity = final_velocity,
                                !.phase = "Complete"],
             item |-> MotionSegment(
                        direction(p) * distance_remaining(p),
                        FixDiv(p.current_velocity + final_velocity, 2 * ONE))]
            : final_velocity \in
                {p.current_velocity
                    + FixMul(p.max_accel,
                             solve_quadratic_for_time(
                                p.current_velocity, p.max_accel,
                                distance_remaining(p)))}})
        ELSE [plan |-> [p EXCEPT !.current_position = @ + direction(p) * d,
                                 !.current_velocity = p.cruise_velocity,
                                 !.phase = "Cruising"],
              item |-> MotionSegment(
                        direction(p) * d,
                        FixDiv(p.current_velocity + p.cruise_velocity, 2 * ONE))]
        : d \in {distance_to_accel(p)}})

\* Plan::next, the Decelerating arm: one segment to the target, to rest.
decelerating(p) ==
    IF distance_remaining(p) <= 0
    THEN complete(p)
    ELSE [plan |-> [p EXCEPT !.current_position = p.target_position,
                             !.current_velocity = 0,
                             !.phase = "Complete"],
          item |-> MotionSegment(direction(p) * distance_remaining(p),
                                 FixDiv(p.current_velocity, 2 * ONE))]

\* The Cruising arm without its test for a distance of zero, yielding the
\* distance up to the deceleration distance whenever that is not negative.
cruising_without_zero_test(p) ==
    Only({
        IF distance_remaining(p) < decel_distance
        THEN decelerating([p EXCEPT !.phase = "Decelerating"])
        ELSE [plan |-> [p EXCEPT !.current_position =
                                    @ + direction(p) * (distance_remaining(p) - decel_distance)],
              item |-> MotionSegment(
                        direction(p) * (distance_remaining(p) - decel_distance),
                        p.cruise_velocity)]
        : decel_distance \in
            {FixDiv(FixMul(p.cruise_velocity, p.cruise_velocity),
                    FixMul(2 * ONE, p.max_accel))}})

\* Plan::next, the Cruising arm: within the deceleration distance it goes on
\* as the Decelerating arm, else it yields the distance up to there.
cruising(p) ==
    IF distance_remaining(p) <= 0
    THEN complete(p)
    ELSE Only({
        IF distance_remaining(p) <= decel_distance
        THEN decelerating([p EXCEPT !.phase = "Decelerating"])
        ELSE [plan |-> [p EXCEPT !.current_position =
                                    @ + direction(p) * (distance_remaining(p) - decel_distance)],
              item |-> MotionSegment(
                        direction(p) * (distance_remaining(p) - decel_distance),
                        p.cruise_velocity)]
        : decel_distance \in
            {FixDiv(FixMul(p.cruise_velocity, p.cruise_velocity),
                    FixMul(2 * ONE, p.max_accel))}})

\* <Plan as Iterator>::next: the plan after the call and the item returned.
plan_next(p) ==
    CASE p.phase = "Complete" -> [plan |-> p, item |-> NoSegment]
      [] p.phase = "Accelerating" -> accelerating(p)
      [] p.phase = "Cruising" -> cruising(p)
      [] p.phase = "Decelerating" -> decelerating(p)

\* StreamingPlan::start_move_to: a new Plan from the tracked position and
\* velocity toward target, and the phase ExecutingMove.
start_move_to(p, target) ==
    [p EXCEPT !.current_plan = Plan_new(p.current_position, p.current_velocity,
                                        target, p.max_accel),
              !.phase = "ExecutingMove",
              !.origin = p.current_position,
              !.moved = 0]

\* add_target whose poll overwrites an occupied pending slot.
add_target_overwrite(p, target) ==
    IF p.phase \in {"Idle", "WaitingForTarget"}
    THEN [plan |-> start_move_to(p, target), result |-> "Ready"]
    ELSE [plan |-> [p EXCEPT !.pending_target = Some(target)], result |-> "Ready"]

\* One poll of the future StreamingPlan::add_target returns: the plan after
\* it and the Poll it yields.
add_target(p, target) ==
    IF p.phase \in {"Idle", "WaitingForTarget"}
    THEN [plan |-> start_move_to(p, target), result |-> "Ready"]
    ELSE IF p.pending_target.some
    THEN [plan |-> [p EXCEPT !.waker = TRUE], result |-> "Pending"]
    ELSE [plan |-> [p EXCEPT !.pending_target = Some(target)], result |-> "Ready"]

\* StreamingPlan::update_state_from_segment. For a segment of negative
\* distance the direction is UNum::from_num(-1), which does not fit an unsigned
\* number: a build with debug assertions panics, and otherwise the value wraps
\* to the largest whole UNum, so that direction >= 1 holds as it does for a
\* segment of positive distance and the distance is added to the position.
update_state_from_segment(p, segment) ==
    IF segment.dist < 0 /\ debug_assertions
    THEN [p EXCEPT !.phase = "Panicked"]
    ELSE [p EXCEPT !.current_position = @ + unsigned_abs(segment.dist),
                   !.current_velocity = segment.speed]

\* next returning Some(segment), unless the update of the state panicked.
yield(p, segment) ==
    IF p.phase = "Panicked"
    THEN p
    ELSE [p EXCEPT !.item = segment, !.moved = @ + segment.dist]

\* <StreamingPlan as Iterator>::next: a segment of the current plan; at its
\* end the pending target starts the next plan and wakes the waiting
\* add_target, or the plan waits for a target.
RECURSIVE next(_)
next(p) ==
    IF p.phase # "ExecutingMove"
    THEN [p EXCEPT !.item = NoSegment]
    ELSE Only({
        IF r.item.some
        THEN yield(update_state_from_segment([p EXCEPT !.current_plan = r.plan], r.item),
                   r.item)
        ELSE IF p.pending_target.some
        THEN next([start_move_to([p EXCEPT !.current_plan = r.plan],
                                 p.pending_target.val)
                     EXCEPT !.pending_target = None, !.waker = FALSE])
        ELSE [p EXCEPT !.current_plan = r.plan, !.phase = "WaitingForTarget",
                       !.item = NoSegment]
        : r \in {IF p.current_plan.some
                 THEN plan_next(p.current_plan)
                 ELSE [plan |-> p.current_plan, item |-> NoSegment]}})

\* StreamingPlan::finish
finish(p) == [p EXCEPT !.pending_target = None, !.waker = FALSE]

\* Everything but the StreamingPlan and its caller.
plan_frame ==
    <<server_vars, command_channel, status_channel, wire, ppc, cur, is_homed,
      feedrate, position, sleep_pin, prev, axes, debug_assertions, steps, speed,
      driver_vars, input, parsed, trapezoid, client, dropped, spared, lines, conns>>

\* A caller polls add_target(target).
AddTargetPoll ==
    /\ plan.phase # "Panicked"
    /\ plan.polls < MaxPolls
    /\ \E target \in PlanTargets :
          /\ plan' = [add_target(plan, target).plan EXCEPT
                        !.finished = FALSE, !.polls = @ + 1]
          /\ polled' = [result |-> add_target(plan, target).result,
                        target |-> target, flip |-> ~polled.flip]
    /\ UNCHANGED plan_frame

\* A producer that is not suspended in add_target(..).await calls it: the
\* first poll of a new future.
AddTargetAwait ==
    /\ polled.result # "Pending"
    /\ AddTargetPoll

\* The producer suspended in add_target(target).await has been woken, its
\* waker taken by next or by finish, and its future is polled again.
AddTargetRepoll ==
    /\ plan.phase # "Panicked"
    /\ polled.result = "Pending"
    /\ ~plan.waker
    /\ plan' = [add_target(plan, polled.target).plan EXCEPT !.finished = FALSE]
    /\ polled' = [result |-> add_target(plan, polled.target).result,
                  target |-> polled.target, flip |-> ~polled.flip]
    /\ UNCHANGED plan_frame

\* A caller takes the next segment.
PlanNextSegment ==
    /\ plan.phase # "Panicked"
    /\ plan' = next(plan)
    /\ UNCHANGED <<plan_frame, polled>>

\* A caller ends the stream.
PlanFinish ==
    /\ plan.phase # "Panicked"
    /\ plan' = [finish(plan) EXCEPT !.finished = TRUE]
    /\ UNCHANGED <<plan_frame, polled>>

\* Entry velocities of a Plan on its own: at rest, 1 mm/s and 5 mm/s.
PlanVelocities == {0, ONE, 5 * ONE}

\* Positions of a Plan on its own: those of the streaming plans, and the 10 mm
\* and 20 mm of the tests simple_move_forward and move_with_initial_velocity.
TrapezoidPositions == PlanTargets \cup {10 * ONE, 20 * ONE}

\* max_accel of a Plan on its own: the smallest UNum above 0, 1 and 2 mm/s^2.
TrapezoidAccels == {1} \cup PlanAccels

\* A Plan on its own, as Plan::new builds it, with what it has emitted so far:
\* the sum of the distances, the last item, whether every segment pointed
\* from start to target, and whether next has returned None.
Trapezoid(current_position, current_velocity, target_position, max_accel) ==
    [some |-> TRUE,
     plan |-> Plan_new(current_position, current_velocity, target_position, max_accel),
     start |-> current_position,
     item |-> NoSegment,
     sum |-> 0,
     segments |-> 0,
     pointed |-> TRUE,
     done |-> FALSE]

\* Everything but the Plan on its own.
trapezoid_frame ==
    <<server_vars, command_channel, status_channel, wire, ppc, cur, is_homed,
      feedrate, position, sleep_pin, prev, axes, debug_assertions, steps, speed,
      driver_vars, input, parsed, plan, polled, client, dropped, spared, lines, conns>>

\* Whether a distance points from start toward target.
Pointed(dist, start, target) ==
    \/ dist > 0 /\ target > start
    \/ dist < 0 /\ target < start

\* A caller takes the next item of the Plan, as collect() does until None.
TrapezoidNextSegment ==
    /\ trapezoid.some
    /\ ~trapezoid.done
    /\ trapezoid' = Only({
            [trapezoid EXCEPT
                !.plan = r.plan,
                !.item = r.item,
                !.sum = @ + r.item.dist,
                !.segments = @ + (IF r.item.some THEN 1 ELSE 0),
                !.pointed = @ /\ (r.item.some =>
                                    Pointed(r.item.dist, trapezoid.start,
                                            trapezoid.plan.target_position)),
                !.done = ~r.item.some]
            : r \in {plan_next(trapezoid.plan)}})
    /\ UNCHANGED trapezoid_frame

(* ------------------------------- client ------------------------------- *)

\* Commands of the program the client runs.
MaxProgram == 2

\* Capacity of the client's ack channel: mpsc::channel(1).
AckCapacity == 1

\* The client after Client::connect, in Run mode with its done_progress task
\* spawned: main is where its main task is, next the command it sends next,
\* ack_ch and done_ch the two mpsc channels, reader and done_progress the two
\* spawned tasks, inbox the lines on their way to the reader. pending,
\* executing and id_gen are the server's side: commands read and not answered,
\* ids acked and not finished, the last id given.
NewClient ==
    [some |-> TRUE, main |-> "send", next |-> 1, conn |-> "up", inbox |-> <<>>,
     reader |-> "running", ack_ch |-> <<>>, done_ch |-> <<>>,
     sent_commands |-> {}, run_bar |-> 0, done_progress |-> "running",
     pending |-> 0, executing |-> {}, id_gen |-> 0]

\* Everything but the client.
client_frame ==
    <<server_vars, command_channel, status_channel, wire, ppc, cur, is_homed,
      feedrate, position, sleep_pin, prev, axes, debug_assertions, steps, speed,
      driver_vars, input, parsed, plan, polled, trapezoid, dropped, spared, lines,
      conns>>

\* The holders of a Sender of the ack channel: the Client's field ack_tx,
\* which lives as long as main, and the clone the reader task owns.
AckSenders(c) ==
    (IF c.main \in {"ok", "err"} THEN {} ELSE {"client"})
        \cup (IF c.reader = "running" THEN {"reader"} ELSE {})

\* The holders of a Sender of the done channel: the Client's field done_tx and
\* the reader task's clone.
DoneSenders(c) ==
    (IF c.main \in {"ok", "err"} THEN {} ELSE {"client"})
        \cup (IF c.reader = "running" THEN {"reader"} ELSE {})

\* Client::send up to its flush. On a connection that is up the command
\* reaches the server. On one the server has closed, write_all fails and
\* reconnect either gives a new connection and reader, on which the command is
\* written, or fails, which send returns; or the write is taken by the socket
\* and lost.
ClientSendWrite ==
    /\ client.some
    /\ client.main = "send"
    /\ \/ /\ client.conn = "up"
          /\ client' = [client EXCEPT !.main = "await_ack", !.pending = @ + 1]
       \/ /\ client.conn = "closed"
          /\ \/ client' = [client EXCEPT !.main = "await_ack", !.conn = "up",
                                         !.reader = "running", !.inbox = <<>>,
                                         !.pending = 1]
             \/ client' = [client EXCEPT !.main = "err"]
             \/ client' = [client EXCEPT !.main = "await_ack"]
    /\ UNCHANGED client_frame

\* The main task resumes from its await: ack_rx.recv() of Client::send with
\* the match on the Ack in main's loop, or done_progress.await after the loop.
ClientMainResume ==
    /\ client.some
    /\ CASE client.main = "await_ack" ->
              IF client.ack_ch # <<>>
              THEN client' = [client EXCEPT
                      !.ack_ch = Tail(@),
                      !.sent_commands =
                          IF Head(client.ack_ch).fmt = StopAckFmt
                          THEN @
                          ELSE @ \cup {Head(client.ack_ch).id},
                      !.run_bar =
                          IF Head(client.ack_ch).fmt = StopAckFmt THEN @ + 1 ELSE @,
                      !.next = @ + 1,
                      !.main = IF client.next + 1 > MaxProgram THEN "join" ELSE "send"]
              ELSE /\ AckSenders(client) = {}
                   /\ client' = [client EXCEPT !.main = "err"]
         [] client.main = "join" ->
              /\ client.done_progress = "finished"
              /\ client' = [client EXCEPT !.main = "ok"]
         [] OTHER -> FALSE
    /\ UNCHANGED client_frame

\* The reader task: one line of the server is parsed and passed on, an ack
\* through the bounded ack channel, a done through the unbounded one, anything
\* else dropped with a warning; at the end of the stream the task exits.
ClientReader ==
    /\ client.some
    /\ client.reader = "running"
    /\ IF client.inbox # <<>>
       THEN CASE Head(client.inbox).fmt \in {AckFmt, StopAckFmt} ->
                    /\ Len(client.ack_ch) < AckCapacity
                    /\ client' = [client EXCEPT
                            !.inbox = Tail(@),
                            !.ack_ch = Append(@, Head(client.inbox))]
              [] Head(client.inbox).fmt = DoneFmt ->
                    client' = [client EXCEPT
                            !.inbox = Tail(@),
                            !.done_ch = Append(@, Head(client.inbox).id)]
              [] OTHER -> client' = [client EXCEPT !.inbox = Tail(@)]
       ELSE /\ client.conn = "closed"
            /\ client' = [client EXCEPT !.reader = "exited"]
    /\ UNCHANGED client_frame

\* The done_progress task: done_rx.recv() returns a Done, which is taken off
\* sent_commands and counted, or None once every Sender is dropped, which ends
\* the task.
ClientDoneProgress ==
    /\ client.some
    /\ client.done_progress = "running"
    /\ IF client.done_ch # <<>>
       THEN client' = [client EXCEPT
                !.done_ch = Tail(@),
                !.sent_commands = @ \ {Head(client.done_ch)},
                !.run_bar = @ + 1]
       ELSE /\ DoneSenders(client) = {}
            /\ client' = [client EXCEPT !.done_progress = "finished"]
    /\ UNCHANGED client_frame

\* The server answers a command it has read: (ack id), (ack) for a Stop, or
\* (parse failed)! after which it drops the connection.
ServerReplies ==
    /\ client.some
    /\ client.conn = "up"
    /\ client.pending > 0
    /\ \/ client' = [client EXCEPT
                !.inbox = Append(@, AckMsg(client.id_gen + 1)),
                !.id_gen = @ + 1,
                !.executing = @ \cup {client.id_gen + 1},
                !.pending = @ - 1]
       \/ client' = [client EXCEPT
                !.inbox = Append(@, StopAckMsg),
                !.pending = @ - 1]
       \/ client' = [client EXCEPT
                !.inbox = Append(@, ParseFailedMsg),
                !.conn = "closed",
                !.pending = 0]
    /\ UNCHANGED client_frame

\* The planner finishes a command and the server writes (done id).
ServerFinishes ==
    /\ client.some
    /\ client.conn = "up"
    /\ \E id \in client.executing :
          client' = [client EXCEPT
                !.inbox = Append(@, DoneMsg(id)),
                !.executing = @ \ {id}]
    /\ UNCHANGED client_frame

\* The server drops the connection: a read or write error, or its timeout.
ServerDrops ==
    /\ client.some
    /\ client.conn = "up"
    /\ client' = [client EXCEPT !.conn = "closed", !.pending = 0]
    /\ UNCHANGED client_frame

ClientNext ==
    \/ ClientSendWrite
    \/ ClientMainResume
    \/ ClientReader
    \/ ClientDoneProgress
    \/ ServerReplies
    \/ ServerFinishes
    \/ ServerDrops

(* --------------------------- specifications --------------------------- *)

Next == Server \/ Planner

\* The server and the planner over everything a host may send.
Spec == Init /\ [][Next]_vars

\* The planner's coordinates, and the targets and feedrates of its moves.
Coords == {k * HALF : k \in 0..MaxCoord}

Feedrates == {ONE, 2 * ONE}

Targets ==
    {t \in [1..FEED -> {None} \cup {Some(v) : v \in Coords \cup Feedrates}] :
        /\ \A i \in 1..AXES : t[i].some => t[i].val \in Coords
        /\ t[FEED].some => t[FEED].val \in Feedrates
        /\ \E i \in 1..FEED : t[i].some}

\* The commands the server can place on the command channel.
PlannerCommands ==
    {Home, Dwell, EnableAllSteppers, DisableAllSteppers}
        \cup {RapidMove(t) : t \in Targets} \cup {LinearMove(t) : t \in Targets}

\* The planner in any state it can be in, with one acked command queued.
MotionInit ==
    /\ spc = "select"
    /\ sock = "open"
    /\ buf = <<>>
    /\ command = Stop
    /\ command_id = 0
    /\ command_id_gen = InitialCommandIdGen + 1
    /\ \E c \in PlannerCommands :
          command_channel = <<[id |-> InitialCommandIdGen + 1, command |-> c]>>
    /\ status_channel = <<>>
    /\ wire = <<[fmt |-> AckFmt, id |-> InitialCommandIdGen + 1, ok |-> TRUE]>>
    /\ ppc = "receive"
    /\ cur = NoCur
    /\ is_homed \in BOOLEAN
    /\ feedrate \in Feedrates
    /\ position \in [1..AXES -> Coords]
    /\ sleep_pin \in {"Low", "High"}
    /\ axes = ScenarioAxes
    /\ debug_assertions = FALSE
    /\ steps = Zero
    /\ speed = Zero
    /\ zero_limit = ScenarioZeroLimit
    /\ configured_program = "Steps"
    /\ dir_pin = [i \in 1..AXES |-> "Low"]
    /\ sm = [i \in 1..AXES |-> SmIdle]
    /\ fut = NoFut
    /\ input = <<>>
    /\ parsed = NotParsed
    /\ plan = NewPlan(0, ONE)
    /\ polled = NotPolled
    /\ trapezoid = NoTrapezoid
    /\ client = NoClient
    /\ prev = StateSnapshot
    /\ dropped = {}
    /\ spared = {}
    /\ lines = 1
    /\ conns = 1

MotionNext == Planner

MotionSpec == MotionInit /\ [][MotionNext]_vars

\* Commands the planner is handed from boot on, in one run.
MaxCommands == 3

\* Targets of one word: one axis or the feedrate.
OneWordTargets ==
    {t \in Targets : Cardinality({i \in 1..FEED : t[i].some}) = 1}

\* The commands of a run from boot: every command without a target (Stop,
\* Park and GetCurrentPosition have an arm in State::run although the server
\* never queues them), and the moves of one word, which in sequence reach
\* every position and feedrate.
BootCommands ==
    {Home, Stop, Dwell, EnableAllSteppers, DisableAllSteppers, Park,
     GetCurrentPosition}
        \cup {RapidMove(t) : t \in OneWordTargets}
        \cup {LinearMove(t) : t \in OneWordTargets}

\* The sender's side of the command channel, seen from the planner: the next
\* id with any command, queued while the planner waits in receive.
CommandArrives ==
    /\ ppc = "receive"
    /\ command_channel = <<>>
    /\ command_id_gen < InitialCommandIdGen + MaxCommands
    /\ command_id_gen' = gen_command_id(command_id_gen).gen
    /\ \E c \in BootCommands :
          command_channel' = <<[id |-> gen_command_id(command_id_gen).id, command |-> c]>>
    /\ UNCHANGED <<spc, sock, buf, command, command_id, status_channel, wire,
                   planner_vars, dropped, spared, lines, conns>>

BootNext == CommandArrives \/ Planner

\* The planner from State::new on, over every command sequence.
BootSpec == Init /\ [][BootNext]_vars

\* Coordinates of the step computation, in millimetres or rotations.
StepMillimeters == {0, 3, 4, 10}

StepCoords == {k * ONE : k \in StepMillimeters}

\* Axis configurations: the machine's, and every axis alike in millimetres at
\* 6 or 12 microns per step, or in rotations.
AxisConfigs ==
    {ScenarioAxes,
     [i \in 1..AXES |-> Axis("Millimeters", 6 * ONE, SixteenthStep)],
     [i \in 1..AXES |-> Axis("Millimeters", 12 * ONE, SixteenthStep)],
     [i \in 1..AXES |-> Axis("Rotations", 12 * ONE, SixteenthStep)]}

\* Targets of at least one axis word over StepCoords, with no feedrate.
StepTargets ==
    {t \in [1..FEED -> {None} \cup {Some(v) : v \in StepCoords}] :
        /\ ~t[FEED].some
        /\ \E i \in 1..AXES : t[i].some}

\* The planner at any position, under any axis configuration, with one acked
\* move queued.
StepsInit ==
    /\ spc = "select"
    /\ sock = "open"
    /\ buf = <<>>
    /\ command = Stop
    /\ command_id = 0
    /\ command_id_gen = InitialCommandIdGen + 1
    /\ \E t \in StepTargets : \E c \in {RapidMove(t), LinearMove(t)} :
          command_channel = <<[id |-> InitialCommandIdGen + 1, command |-> c]>>
    /\ status_channel = <<>>
    /\ wire = <<[fmt |-> AckFmt, id |-> InitialCommandIdGen + 1, ok |-> TRUE]>>
    /\ ppc = "receive"
    /\ cur = NoCur
    /\ is_homed = TRUE
    /\ feedrate = InitialFeedrate
    /\ position \in [1..AXES -> StepCoords]
    /\ sleep_pin = "High"
    /\ axes \in AxisConfigs
    /\ debug_assertions = FALSE
    /\ steps = Zero
    /\ speed = Zero
    /\ zero_limit = ScenarioZeroLimit
    /\ configured_program = "Steps"
    /\ dir_pin = [i \in 1..AXES |-> "Low"]
    /\ sm = [i \in 1..AXES |-> SmIdle]
    /\ fut = NoFut
    /\ input = <<>>
    /\ parsed = NotParsed
    /\ plan = NewPlan(0, ONE)
    /\ polled = NotPolled
    /\ trapezoid = NoTrapezoid
    /\ client = NoClient
    /\ prev = StateSnapshot
    /\ dropped = {}
    /\ spared = {}
    /\ lines = 1
    /\ conns = 1

StepsNext == Planner

StepsSpec == StepsInit /\ [][StepsNext]_vars

\* Targets of the speed computation: X at 0.1, 3 and 2098 mm, Z at 4 and
\* 10 mm, C at the smallest turn and at half a turn, F at 0, 5 and 40 mm/s.
SpeedWords ==
    <<{102, 3 * ONE, 2098 * ONE}, {4 * ONE, 10 * ONE}, {1, HALF},
      {0, 5 * ONE, 40 * ONE}>>

SpeedTargets ==
    {t \in [1..FEED -> {None} \cup {Some(v) : v \in UNION {SpeedWords[i] : i \in 1..FEED}}] :
        /\ \A i \in 1..FEED : t[i].some => t[i].val \in SpeedWords[i]
        /\ \E i \in 1..FEED : t[i].some}

\* Where the planner stands before the move: at the origin, or at X3 Z4 C0.5.
SpeedPositions == {Zero, <<3 * ONE, 4 * ONE, HALF>>}

\* The machine's axes, and every axis in millimetres at 6 microns per step.
SpeedAxes ==
    {ScenarioAxes, [i \in 1..AXES |-> Axis("Millimeters", 6 * ONE, SixteenthStep)]}

\* The planner of either build, with one acked move queued.
SpeedInit ==
    /\ spc = "select"
    /\ sock = "open"
    /\ buf = <<>>
    /\ command = Stop
    /\ command_id = 0
    /\ command_id_gen = InitialCommandIdGen + 1
    /\ \E t \in SpeedTargets : \E c \in {RapidMove(t), LinearMove(t)} :
          command_channel = <<[id |-> InitialCommandIdGen + 1, command |-> c]>>
    /\ status_channel = <<>>
    /\ wire = <<[fmt |-> AckFmt, id |-> InitialCommandIdGen + 1, ok |-> TRUE]>>
    /\ ppc = "receive"
    /\ cur = NoCur
    /\ is_homed = TRUE
    /\ feedrate = InitialFeedrate
    /\ position \in SpeedPositions
    /\ sleep_pin = "High"
    /\ axes \in SpeedAxes
    /\ debug_assertions \in BOOLEAN
    /\ steps = Zero
    /\ speed = Zero
    /\ zero_limit = ScenarioZeroLimit
    /\ configured_program = "Steps"
    /\ dir_pin = [i \in 1..AXES |-> "Low"]
    /\ sm = [i \in 1..AXES |-> SmIdle]
    /\ fut = NoFut
    /\ input = <<>>
    /\ parsed = NotParsed
    /\ plan = NewPlan(0, ONE)
    /\ polled = NotPolled
    /\ trapezoid = NoTrapezoid
    /\ client = NoClient
    /\ prev = StateSnapshot
    /\ dropped = {}
    /\ spared = {}
    /\ lines = 1
    /\ conns = 1

SpeedNext == Planner

\* The move arm's steps and speeds over SpeedTargets.
SpeedSpec == SpeedInit /\ [][SpeedNext]_vars

\* The driver as State::new's caller finds it, on any board.
DriverInit ==
    /\ spc = "accept"
    /\ sock = "closed"
    /\ buf = <<>>
    /\ command = Stop
    /\ command_id = 0
    /\ command_id_gen = InitialCommandIdGen
    /\ command_channel = <<>>
    /\ status_channel = <<>>
    /\ wire = <<>>
    /\ ppc = "execute"
    /\ cur = NoCur
    /\ is_homed = FALSE
    /\ feedrate = InitialFeedrate
    /\ position = Zero
    /\ sleep_pin = "Low"
    /\ axes = ScenarioAxes
    /\ debug_assertions = FALSE
    /\ steps = Zero
    /\ speed = Zero
    /\ zero_limit \in ZeroLimitConfigs
    /\ configured_program = "None"
    /\ dir_pin = [i \in 1..AXES |-> "Low"]
    /\ sm = [i \in 1..AXES |-> SmIdle]
    /\ fut = NoFut
    /\ input = <<>>
    /\ parsed = NotParsed
    /\ plan = NewPlan(0, ONE)
    /\ polled = NotPolled
    /\ trapezoid = NoTrapezoid
    /\ client = NoClient
    /\ prev = StateSnapshot
    /\ dropped = {}
    /\ spared = {}
    /\ lines = 0
    /\ conns = 0

DriverNext == Driver \/ Pio

\* The driver and the three state machines over every sequence of home and
\* do_move calls, each awaited to its end as State::run does.
DriverSpec == DriverInit /\ [][DriverNext]_vars

CancelNext == Driver \/ Pio \/ CancelDoMove \/ CancelDoMoveGuarded

\* DriverSpec, with do_move futures that may be dropped while they wait.
CancelSpec == DriverInit /\ [][CancelNext]_vars

\* The driver of the machine as Driver::new leaves it.
EncodingInit ==
    /\ spc = "accept"
    /\ sock = "closed"
    /\ buf = <<>>
    /\ command = Stop
    /\ command_id = 0
    /\ command_id_gen = InitialCommandIdGen
    /\ command_channel = <<>>
    /\ status_channel = <<>>
    /\ wire = <<>>
    /\ ppc = "execute"
    /\ cur = NoCur
    /\ is_homed = FALSE
    /\ feedrate = InitialFeedrate
    /\ position = Zero
    /\ sleep_pin = "Low"
    /\ axes = ScenarioAxes
    /\ debug_assertions = FALSE
    /\ steps = Zero
    /\ speed = Zero
    /\ zero_limit = ScenarioZeroLimit
    /\ configured_program = "None"
    /\ dir_pin = [i \in 1..AXES |-> "Low"]
    /\ sm = [i \in 1..AXES |-> SmIdle]
    /\ fut = NoFut
    /\ input = <<>>
    /\ parsed = NotParsed
    /\ plan = NewPlan(0, ONE)
    /\ polled = NotPolled
    /\ trapezoid = NoTrapezoid
    /\ client = NoClient
    /\ prev = StateSnapshot
    /\ dropped = {}
    /\ spared = {}
    /\ lines = 0
    /\ conns = 0

EncodingNext ==
    \/ EncodedDoMoveCall
    \/ DoMovePush
    \/ A4988DoMoveCall
    \/ A4988DoMovePush

\* The pushes of one do_move of either driver, over EncodedSpeeds.
EncodingSpec == EncodingInit /\ [][EncodingNext]_vars

\* The parser before a call, on any bytes a read can have left.
ParserInit ==
    /\ spc = "select"
    /\ sock = "open"
    /\ buf = <<>>
    /\ command = Stop
    /\ command_id = 0
    /\ command_id_gen = InitialCommandIdGen
    /\ command_channel = <<>>
    /\ status_channel = <<>>
    /\ wire = <<>>
    /\ ppc = "receive"
    /\ cur = NoCur
    /\ is_homed = FALSE
    /\ feedrate = InitialFeedrate
    /\ position = Zero
    /\ sleep_pin = "Low"
    /\ axes = ScenarioAxes
    /\ debug_assertions = FALSE
    /\ steps = Zero
    /\ speed = Zero
    /\ zero_limit = ScenarioZeroLimit
    /\ configured_program = "None"
    /\ dir_pin = [i \in 1..AXES |-> "Low"]
    /\ sm = [i \in 1..AXES |-> SmIdle]
    /\ fut = NoFut
    /\ input \in Inputs
    /\ parsed = NotParsed
    /\ plan = NewPlan(0, ONE)
    /\ polled = NotPolled
    /\ trapezoid = NoTrapezoid
    /\ client = NoClient
    /\ prev = StateSnapshot
    /\ dropped = {}
    /\ spared = {}
    /\ lines = 0
    /\ conns = 0

ParserNext == ParseInput

\* parse_single_command over lines and their prefixes.
ParserSpec == ParserInit /\ [][ParserNext]_vars

PipelineNext ==
    \/ Accept
    \/ PipelinedRead
    \/ SelectStatus
    \/ WriteDone
    \/ DispatchCommand
    \/ SendResume
    \/ WriteAck
    \/ Planner

\* The server and the planner under a host that pipelines Home commands on a
\* connection that stays up.
PipelineSpec == Init /\ [][PipelineNext]_vars

\* The client in Run mode, connected, before its first command.
ClientInit ==
    /\ spc = "accept"
    /\ sock = "closed"
    /\ buf = <<>>
    /\ command = Stop
    /\ command_id = 0
    /\ command_id_gen = InitialCommandIdGen
    /\ command_channel = <<>>
    /\ status_channel = <<>>
    /\ wire = <<>>
    /\ ppc = "receive"
    /\ cur = NoCur
    /\ is_homed = FALSE
    /\ feedrate = InitialFeedrate
    /\ position = Zero
    /\ sleep_pin = "Low"
    /\ axes = ScenarioAxes
    /\ debug_assertions = FALSE
    /\ steps = Zero
    /\ speed = Zero
    /\ zero_limit = ScenarioZeroLimit
    /\ configured_program = "None"
    /\ dir_pin = [i \in 1..AXES |-> "Low"]
    /\ sm = [i \in 1..AXES |-> SmIdle]
    /\ fut = NoFut
    /\ input = <<>>
    /\ parsed = NotParsed
    /\ plan = NewPlan(0, ONE)
    /\ polled = NotPolled
    /\ trapezoid = NoTrapezoid
    /\ client = NewClient
    /\ prev = [is_homed |-> FALSE, feedrate |-> InitialFeedrate, position |-> Zero,
               sleep_pin |-> "Low"]
    /\ dropped = {}
    /\ spared = {}
    /\ lines = 0
    /\ conns = 0

\* The client's tasks and the server's replies on its connection.
ClientSpec == ClientInit /\ [][ClientNext]_vars

\* A StreamingPlan as StreamingPlan::new builds it.
PlanInit ==
    /\ spc = "accept"
    /\ sock = "closed"
    /\ buf = <<>>
    /\ command = Stop
    /\ command_id = 0
    /\ command_id_gen = InitialCommandIdGen
    /\ command_channel = <<>>
    /\ status_channel = <<>>
    /\ wire = <<>>
    /\ ppc = "receive"
    /\ cur = NoCur
    /\ is_homed = FALSE
    /\ feedrate = InitialFeedrate
    /\ position = Zero
    /\ sleep_pin = "Low"
    /\ axes = ScenarioAxes
    /\ debug_assertions \in BOOLEAN
    /\ steps = Zero
    /\ speed = Zero
    /\ zero_limit = ScenarioZeroLimit
    /\ configured_program = "None"
    /\ dir_pin = [i \in 1..AXES |-> "Low"]
    /\ sm = [i \in 1..AXES |-> SmIdle]
    /\ fut = NoFut
    /\ input = <<>>
    /\ parsed = NotParsed
    /\ plan \in {NewPlan(start_position, max_accel) :
                    start_position \in PlanTargets, max_accel \in PlanAccels}
    /\ polled = NotPolled
    /\ trapezoid = NoTrapezoid
    /\ client = NoClient
    /\ prev = StateSnapshot
    /\ dropped = {}
    /\ spared = {}
    /\ lines = 0
    /\ conns = 0

PlanNext == AddTargetPoll \/ PlanNextSegment \/ PlanFinish

\* A StreamingPlan under every sequence of add_target, next and finish.
PlanSpec == PlanInit /\ [][PlanNext]_vars

WakeNext == AddTargetAwait \/ AddTargetRepoll \/ PlanNextSegment \/ PlanFinish

\* ENABLED <<PlanNextSegment>>_vars, written out: a call of next changes the
\* plan while a move is executing, and takes back the last item otherwise.
NextHasWork ==
    \/ plan.phase = "ExecutingMove"
    \/ plan.phase \in {"Idle", "WaitingForTarget"} /\ plan.item.some

\* ENABLED <<AddTargetRepoll>>_vars, written out: the guard of the action,
\* whose step always changes polled.
RepollDue ==
    /\ plan.phase # "Panicked"
    /\ polled.result = "Pending"
    /\ ~plan.waker

\* A StreamingPlan between one producer awaiting add_target and a consumer that
\* keeps calling next, under weak fairness of PlanNextSegment (next is called
\* as long as it has something to do) and of AddTargetRepoll (the executor
\* polls a woken task). Weak fairness of A is []<>~ENABLED <<A>>_vars \/
\* []<><<A>>_vars; the enabling conditions are the two predicates above.
WakeSpec ==
    /\ PlanInit
    /\ [][WakeNext]_vars
    /\ ([]<>(~NextHasWork) \/ []<><<PlanNextSegment>>_vars)
    /\ ([]<>(~RepollDue) \/ []<><<AddTargetRepoll>>_vars)

\* A Plan on its own, as Plan::new builds it.
TrapezoidInit ==
    /\ spc = "accept"
    /\ sock = "closed"
    /\ buf = <<>>
    /\ command = Stop
    /\ command_id = 0
    /\ command_id_gen = InitialCommandIdGen
    /\ command_channel = <<>>
    /\ status_channel = <<>>
    /\ wire = <<>>
    /\ ppc = "receive"
    /\ cur = NoCur
    /\ is_homed = FALSE
    /\ feedrate = InitialFeedrate
    /\ position = Zero
    /\ sleep_pin = "Low"
    /\ axes = ScenarioAxes
    /\ debug_assertions = FALSE
    /\ steps = Zero
    /\ speed = Zero
    /\ zero_limit = ScenarioZeroLimit
    /\ configured_program = "None"
    /\ dir_pin = [i \in 1..AXES |-> "Low"]
    /\ sm = [i \in 1..AXES |-> SmIdle]
    /\ fut = NoFut
    /\ input = <<>>
    /\ parsed = NotParsed
    /\ plan = NewPlan(0, ONE)
    /\ polled = NotPolled
    /\ trapezoid \in {Trapezoid(current_position, current_velocity, target_position, max_accel) :
                        current_position \in TrapezoidPositions,
                        current_velocity \in PlanVelocities,
                        target_position \in TrapezoidPositions,
                        max_accel \in TrapezoidAccels}
    /\ client = NoClient
    /\ prev = StateSnapshot
    /\ dropped = {}
    /\ spared = {}
    /\ lines = 0
    /\ conns = 0

TrapezoidNext == TrapezoidNextSegment

\* A Plan on its own, iterated until it returns None.
TrapezoidSpec == TrapezoidInit /\ [][TrapezoidNext]_vars

(* ------------------------- the wire, as written ----------------------- *)

IsAck(w) == w.fmt = AckFmt

IsDone(w) == w.fmt = DoneFmt

Acks(id) == {i \in 1..Len(wire) : IsAck(wire[i]) /\ wire[i].id = id}

Dones(id) == {i \in 1..Len(wire) : IsDone(wire[i]) /\ wire[i].id = id}

Range(seq) == {seq[i] : i \in 1..Len(seq)}

\* Ids the server has generated, and those whose send has completed.
Generated == 1..command_id_gen

Accepted == Generated \ (IF spc = "send" THEN {command_id} ELSE {})

\* Nothing is queued, executing or waiting to be written.
Quiescent ==
    /\ spc = "select"
    /\ ppc = "receive"
    /\ command_channel = <<>>
    /\ status_channel = <<>>

(* ------------------------------- claims ------------------------------- *)

\* C1 (as stated): every (done id) that reached the wire is preceded on the
\* wire by an (ack id) for the same id.
C1_DoneOnWireHasAckOnWire ==
    \A j \in 1..Len(wire) :
        (IsDone(wire[j]) /\ wire[j].ok) =>
            \E i \in 1..(j - 1) :
                IsAck(wire[i]) /\ wire[i].ok /\ wire[i].id = wire[j].id

\* C1 (amended): for every id the server's write of (ack id) comes strictly
\* before its write of (done id), whether or not the socket took the ack.
C1_AckWrittenBeforeDone ==
    \A j \in 1..Len(wire) :
        IsDone(wire[j]) =>
            \E i \in 1..(j - 1) : IsAck(wire[i]) /\ wire[i].id = wire[j].id

\* C1 witness: an (ack id) and later the (done id), both taken by the socket.
C1_Witness ==
    \E i, j \in 1..Len(wire) :
        /\ i < j
        /\ IsAck(wire[i]) /\ wire[i].ok
        /\ IsDone(wire[j]) /\ wire[j].ok
        /\ wire[i].id = wire[j].id

\* C2: acks are written in increasing id order and so are dones: for k1 < k2,
\* (ack k1) precedes (ack k2) and (done k1) precedes (done k2).
C2_AcksAndDonesInIdOrder ==
    \A j \in 2..Len(wire) :
        (IsAck(wire[j]) \/ IsDone(wire[j])) =>
            \A i \in 1..(j - 1) :
                wire[i].fmt = wire[j].fmt => wire[i].id < wire[j].id

\* C2 witness: two acks and two dones on the wire of one connection.
C2_Witness ==
    /\ conns = 1
    /\ \E i, j \in 1..Len(wire) : i < j /\ IsAck(wire[i]) /\ IsAck(wire[j])
    /\ \E i, j \in 1..Len(wire) : i < j /\ IsDone(wire[i]) /\ IsDone(wire[j])

\* C3 (as stated): once nothing is pending, every accepted id has exactly one
\* (ack id) and exactly one (done id) written.
C3_EveryAcceptedIdAckedAndDone ==
    Quiescent =>
        \A id \in Accepted :
            Cardinality(Acks(id)) = 1 /\ Cardinality(Dones(id)) = 1

\* C3 (amended): every accepted id gets exactly one (ack id) write and at most
\* one (done id) write; an id removed from the channel by a Stop gets no done;
\* once nothing is pending every other accepted id has exactly one done.
C3_OneAckAtMostOneDone ==
    \A id \in Generated :
        LET acks == Cardinality(Acks(id))
            dones == Cardinality(Dones(id))
        IN  /\ acks = IF spc \in {"send", "ack"} /\ command_id = id THEN 0 ELSE 1
            /\ dones <= 1
            /\ id \in dropped => dones = 0
            /\ (Quiescent /\ id \notin dropped) => dones = 1

\* C3 witness: nothing is pending, one id was dropped by a Stop and another
\* has its ack and its done.
C3_Witness ==
    /\ Quiescent
    /\ dropped # {}
    /\ \E id \in Accepted \ dropped : Acks(id) # {} /\ Dones(id) # {}

\* The last write_all on the socket.
LastWrite == wire[Len(wire)]

\* The server takes a step (the planner is the only other process).
ServerStep == server_vars' # server_vars \/ wire' # wire

\* C4: when the server dispatches a Stop, every queued command is removed from
\* the command channel and no (done id) is ever written for it; the reply is
\* (ack) with no id, and no id is generated; the command the planner is
\* executing is left as it is, and once nothing is pending its (done id) has
\* been written.
C4_StopDropsQueuedOnly ==
    /\ [](\A id \in dropped :
             /\ Dones(id) = {}
             /\ id \notin Ids(command_channel)
             /\ \A k \in 1..Len(status_channel) : status_channel[k] # id
             /\ ppc # "receive" => cur.id # id)
    /\ [](spared \cap dropped = {})
    /\ [](Quiescent => \A id \in spared : Cardinality(Dones(id)) = 1)
    /\ [][(spc = "dispatch" /\ command = Stop /\ ServerStep) =>
             /\ command_channel' = <<>>
             /\ spc' = "stop_ack"
             /\ UNCHANGED <<planner_vars, status_channel, command_id_gen, wire>>]_vars
    /\ [][(spc = "stop_ack" /\ ServerStep) =>
             /\ Len(wire') = Len(wire) + 1
             /\ SubSeq(wire', 1, Len(wire)) = wire
             /\ wire'[Len(wire')].fmt = StopAckFmt
             /\ wire'[Len(wire')].id = 0
             /\ UNCHANGED <<planner_vars, command_channel, status_channel,
                            command_id_gen>>]_vars

\* C4 witness: a Stop removed queued commands while the planner was executing
\* one; (ack) was written, and so was the (done id) of the executing command.
C4_Witness ==
    /\ dropped # {}
    /\ \E id \in spared : Dones(id) # {}
    /\ \E i \in 1..Len(wire) : wire[i].fmt = StopAckFmt /\ wire[i].ok

\* The ids the planner side holds: queued, being handled, or reported finished.
IdsInFlight ==
    Ids(command_channel)
        \cup {status_channel[k] : k \in 1..Len(status_channel)}
        \cup (IF cur = NoCur THEN {} ELSE {cur.id})

\* C5: ids are assigned only when a command other than Stop is dispatched, by
\* incrementing the counter and then reading it: the first id is 1, each later
\* one is the previous plus one whatever happened in between (a Stop, a parse
\* failure, a new connection), so the k-th (ack id) carries id k; no id is 0.
C5_IdsCountFromOne ==
    /\ [](LET acks == SelectSeq(wire, IsAck)
           IN  \A k \in 1..Len(acks) : acks[k].id = k)
    /\ [](IdsInFlight \subseteq 1..command_id_gen)
    /\ [](\A i, j \in 1..Len(command_channel) :
             i < j => command_channel[i].id < command_channel[j].id)
    /\ [][(spc = "dispatch" /\ command # Stop /\ ServerStep) =>
             /\ command_id_gen' = command_id_gen + 1
             /\ command_id' = command_id_gen + 1]_vars
    /\ [][command_id_gen' # command_id_gen =>
             spc = "dispatch" /\ command # Stop]_vars
    /\ [][Len(command_channel') > Len(command_channel) =>
             /\ command_channel'[Len(command_channel')].id = command_id'
             /\ command_id' = command_id_gen'
             /\ command_id' >= 1]_vars

\* C5 witness: (ack 1), then a Stop's (ack) and a parse failure that ends the
\* connection, then (ack 2) on the next connection.
C5_Witness ==
    \E i, j, k, l \in 1..Len(wire) :
        /\ i < j /\ j < k /\ k < l
        /\ IsAck(wire[i]) /\ wire[i].id = 1
        /\ wire[j] = [fmt |-> StopAckFmt, id |-> 0, ok |-> TRUE]
        /\ wire[k].fmt = ParseFailedFmt
        /\ IsAck(wire[l]) /\ wire[l].id = 2

\* Ids with an (ack id) written.
AckedIds == {w.id : w \in {v \in Range(wire) : IsAck(v)}}

\* Ids whose execution the planner has finished: CommandFinished is about to
\* be published, is on the status channel, or was taken off it by the server.
FinishedIds ==
    {status_channel[k] : k \in 1..Len(status_channel)}
        \cup (IF ppc = "publish" THEN {cur.id} ELSE {})
        \cup (IF ppc = "receive" /\ cur # NoCur THEN {cur.id} ELSE {})
        \cup (IF spc = "done" THEN {command_id} ELSE {})
        \cup {w.id : w \in {v \in Range(wire) : IsDone(v)}}

\* Acked commands still to be executed or being executed. A command a Stop
\* removed from the channel is no longer outstanding.
Outstanding == AckedIds \ (FinishedIds \cup dropped)

\* C6: an (ack id) is written only once the send of that id has completed;
\* when the channel is full the dispatch suspends in the send, and while it
\* stays full the server reads nothing from the socket and writes nothing;
\* the acked commands the planner has not finished number at most the
\* channel capacity plus one.
C6_FlowControl ==
    /\ [](AckedIds \subseteq Accepted)
    /\ [](Len(command_channel) <= ChannelCapacity)
    /\ [](Cardinality(Outstanding) <= ChannelCapacity + 1)
    /\ [](spc = "send" =>
             /\ command_id \notin AckedIds
             /\ command_id \notin Ids(command_channel))
    /\ [](spc = "ack" => command_id \in IdsInFlight \cup dropped)
    /\ [][(spc = "dispatch" /\ command # Stop /\ ServerStep) =>
             IF IsFull(command_channel)
             THEN spc' = "send" /\ UNCHANGED <<command_channel, buf, lines, wire>>
             ELSE spc' = "ack" /\ Len(command_channel') = Len(command_channel) + 1]_vars
    /\ [][(spc = "send" /\ IsFull(command_channel)) =>
             UNCHANGED <<server_vars, lines, wire>>]_vars
    /\ [][(spc = "send" /\ ServerStep) =>
             spc' = "ack" /\ UNCHANGED <<buf, lines, wire>>]_vars
    /\ [][(Len(wire') > Len(wire) /\ IsAck(wire'[Len(wire')])) =>
             /\ spc = "ack"
             /\ wire'[Len(wire')].id = command_id]_vars

\* C6 witness: the channel is full of acked commands, the planner is executing
\* another acked command, and the server is suspended in a send.
C6_Witness ==
    /\ spc = "send"
    /\ IsFull(command_channel)
    /\ ppc = "execute"
    /\ Cardinality(Outstanding) = ChannelCapacity + 1

\* C7: on a ParseFailed the server writes exactly "(parse failed)\n", drops the
\* connection and accepts again; no ack is written, nothing is placed on the
\* command channel and the id counter does not advance.
C7_ParseFailedReply ==
    [][(spc = "parse_failed" /\ ServerStep) =>
          /\ Len(wire') = Len(wire) + 1
          /\ SubSeq(wire', 1, Len(wire)) = wire
          /\ wire'[Len(wire')].fmt = "(parse failed)\n"
          /\ spc' = "accept"
          /\ sock' = "closed"
          /\ UNCHANGED <<command_channel, command_id_gen>>]_vars

Executed == cur # NoCur /\ ppc \in {"publish", "receive"}

\* C9: after a RapidMove or LinearMove, on every axis present in the target
\* the position equals the target's coordinate, and on every absent axis it is
\* what it was when the command was received.
C9_MoveUpdatesPresentAxesOnly ==
    (Executed /\ IsMove(cur.command)) =>
        \A i \in 1..AXES :
            /\ cur.command.target[i].some =>
                   position[i] = cur.command.target[i].val
            /\ ~cur.command.target[i].some => position[i] = prev.position[i]

\* C9 witness: a move with one axis present and another absent has executed;
\* the present axis moved and the absent one kept a non-zero coordinate.
C9_Witness ==
    /\ Executed
    /\ IsMove(cur.command)
    /\ \E i, j \in 1..AXES :
          /\ cur.command.target[i].some
          /\ position[i] # prev.position[i]
          /\ ~cur.command.target[j].some
          /\ position[j] # 0

\* C10: after DisableAllSteppers, whatever the state before it, the sleep pin
\* is driven low, is_homed is false and every coordinate is zero.
C10_DisableSleepsUnhomesZeroes ==
    (Executed /\ cur.command = DisableAllSteppers) =>
        /\ sleep_pin = "Low"
        /\ is_homed = FALSE
        /\ position = Zero

\* C10 witness: DisableAllSteppers has executed from a state that was awake,
\* homed and away from zero.
C10_Witness ==
    /\ Executed
    /\ cur.command = DisableAllSteppers
    /\ prev.sleep_pin = "High"
    /\ prev.is_homed
    /\ prev.position # Zero
    /\ sleep_pin = "Low"

\* C11: is_homed is false at boot; a step makes it true only by completing a
\* Home, and then every coordinate is zero; a step makes it false only by
\* completing a DisableAllSteppers; after a Home it is true, and a move, a
\* Dwell or an EnableAllSteppers leaves it as it was when received.
C11_HomedOnlyByHome ==
    /\ [](cur = NoCur => is_homed = FALSE)
    /\ [][(~is_homed /\ is_homed') =>
             /\ ppc = "execute"
             /\ cur.command = Home
             /\ position' = Zero]_vars
    /\ [][(is_homed /\ ~is_homed') =>
             /\ ppc = "execute"
             /\ cur.command = DisableAllSteppers]_vars
    /\ []((Executed /\ cur.command = Home) => (is_homed /\ position = Zero))
    /\ []((Executed /\ cur.command.kind \notin {"Home", "DisableAllSteppers"}) =>
             is_homed = prev.is_homed)

\* C11 witness: from boot a Home completed, then a move that left the planner
\* homed and away from zero.
C11_Witness ==
    /\ Executed
    /\ IsMove(cur.command)
    /\ cur.id = 2
    /\ is_homed
    /\ position # Zero

\* The move just executed asked nothing of axis i: its target is absent or
\* equal to the position the move started from.
Unmoved(i) ==
    \/ ~cur.command.target[i].some
    \/ cur.command.target[i].val = prev.position[i]

\* C12: in every do_move the planner issues, an axis whose target is absent or
\* equal to its current position gets step count 0.
C12_NoStepsForUnmovedAxis ==
    (Executed /\ IsMove(cur.command)) =>
        \A i \in 1..AXES : Unmoved(i) => steps[i] = 0

\* A move on one axis only, executed away from the origin: one axis absent,
\* one axis asked to stay where it is, one axis stepping.
C12_Witness ==
    /\ Executed /\ IsMove(cur.command)
    /\ \E i, j, k \in 1..AXES :
          /\ ~cur.command.target[i].some /\ prev.position[i] # 0 /\ steps[i] = 0
          /\ cur.command.target[j].some /\ prev.position[j] # 0
          /\ cur.command.target[j].val = prev.position[j] /\ steps[j] = 0
          /\ steps[k] # 0

\* The distance of the move just executed on axis i, target minus position,
\* in raw bits; zero for an absent target.
MovedBy(i) ==
    IF cur.command.target[i].some
    THEN cur.command.target[i].val - prev.position[i]
    ELSE 0

\* a / b rounded to the nearest integer, halves away from zero (b > 0).
RoundDiv(a, b) ==
    IF a >= 0 THEN (2 * a + b) \div (2 * b) ELSE -((2 * (-a) + b) \div (2 * b))

\* C13: on a Millimeters axis the step count passed to do_move equals
\* round(distance_mm * 1000 / microns_per_step), with the sign of target minus
\* position, saturating to the i32 range.
C13_StepsAreRounded ==
    (Executed /\ IsMove(cur.command)) =>
        \A i \in 1..AXES :
            axes[i].unit = "Millimeters" =>
                steps[i] = saturating_cast(
                    RoundDiv(MovedBy(i) * 1000, axes[i].microns_per_step))

\* C14: for every (id, command) the planner receives, Stop included, it
\* publishes exactly one CommandFinished(id): only from the end of the
\* command's effect, its own id, once, and it does not return to the receive
\* without having published it.
C14_OneFinishedPerCommand ==
    /\ [][status_channel' # status_channel =>
            /\ ppc = "publish"
            /\ status_channel' = Append(status_channel, cur.id)]_vars
    /\ [][(ppc # "receive" /\ ppc' = "receive") =>
            status_channel' = Append(status_channel, cur.id)]_vars

\* C15: in every do_move no axis begins executing its words before the batch
\* commit: no state machine starts pulsing while the words are still being
\* pushed, and the batch finds two words in each FIFO and takes all three
\* state machines from disabled to enabled together.
C15_StartTogether ==
    /\ [][\A i \in 1..AXES :
            (fut.kind = "do_move" /\ sm[i].run # "pulsing" /\ sm'[i].run = "pulsing")
                => fut.pc = "await"]_vars
    /\ [][(fut.kind = "do_move" /\ fut.pc = "push" /\ fut'.pc = "await") =>
            \A i \in 1..AXES :
                /\ ~sm[i].enabled /\ sm'[i].enabled
                /\ Len(sm[i].tx) = 2]_vars

\* C16: when do_move is dropped while its state machines are enabled and the
\* IRQs are awaited, every state machine is left with an empty FIFO, at
\* instruction 0 and disabled; when do_move returns normally nothing but its
\* closing batches touches the state machines.
C16_CancelLeavesQuiet ==
    /\ [][(fut.pc = "await" /\ fut.kind = "do_move" /\ fut'.pc = "dropped") =>
            \A i \in 1..AXES :
                /\ sm'[i].tx = <<>>
                /\ sm'[i].run = "origin"
                /\ ~sm'[i].enabled]_vars
    /\ [][(fut.pc = "await" /\ fut.kind = "do_move" /\ fut'.pc = "idle") =>
            sm' = [i \in 1..AXES |-> [sm[i] EXCEPT !.enabled = FALSE]]]_vars

\* input is a proper prefix of a line of the grammar that the parser accepts.
IsProperPrefix ==
    \E l \in Literals :
        /\ parse_bytes(AXIS_LABELS, l.text).st = "Ok"
        /\ Len(input) < Len(l.text)
        /\ input = SubSeq(l.text, 1, Len(input))

\* C17: parse_single_command is a streaming parser: on every proper prefix of
\* a valid newline-terminated line it returns Incomplete, never ParseFailed.
C17_PrefixIsIncomplete ==
    (parsed # NotParsed /\ IsProperPrefix) => parsed.st = "Incomplete"

\* C18: the command literals map as specified (G0, G1, G4 S, G4 P, G27, G28,
\* M0, M17, M18), each with nothing left over, and any other line is a parse
\* failure.
C18_LiteralsMap ==
    (parsed # NotParsed /\ input # <<>> /\ input[Len(input)] = "\n") =>
        /\ \A l \in Literals :
              input = l.text =>
                  parsed = [st |-> "Ok", rest |-> <<>>, command |-> l.command]
        /\ (\A l \in Literals : input # l.text) => parsed.st = "ParseFailed"

\* C19: a G0 or G1 line with no axis or feedrate word is a parse failure and
\* no parse yields a move whose position is all absent; a line with a
\* non-empty subset of the labels in label order yields a position with
\* exactly those present, each at its label's index.
C19_MovesNeedAWord ==
    parsed # NotParsed =>
        /\ input \in {<<"G", "0", "\n">>, <<"G", "1", "\n">>} => parsed.st = "ParseFailed"
        /\ (parsed.st = "Ok" /\ IsMove(parsed.command)) =>
              \E k \in 1..Len(AXIS_LABELS) : parsed.command.target[k].some
        /\ \A mk \in Masks, d \in WordDigits, c \in {"0", "1"} :
              input = <<"G", c>> \o Words(1, mk, d) \o <<"\n">> =>
                  /\ parsed.st = "Ok"
                  /\ parsed.rest = <<>>
                  /\ parsed.command.kind = IF c = "0" THEN "RapidMove" ELSE "LinearMove"
                  /\ \A k \in 1..Len(AXIS_LABELS) :
                        /\ parsed.command.target[k].some <=> k \in mk
                        /\ k \in mk => parsed.command.target[k].val = from_ascii(<<d>>) * ONE

\* A move line with two words that skip a label, parsed.
C19_Witness ==
    /\ input = <<"G", "1", " ", "X", "2", " ", "C", "2", "\n">>
    /\ parsed.st = "Ok"
    /\ parsed.command = LinearMove(<<Some(2 * ONE), None, Some(2 * ONE), None>>)

\* C20: StreamingPlan buffers at most one pending target. A poll of add_target
\* is Ready when the plan is Idle or WaitingForTarget, and starts the move to
\* the target; it is Ready when a move is executing and the pending slot is
\* empty, and fills the slot; when a move is executing and the slot is
\* occupied it is Pending, registers the waker and leaves the pending target
\* as it was.
C20_OnePendingTarget ==
    [][polled' # polled =>
        /\ plan.phase \in {"Idle", "WaitingForTarget"} =>
              /\ polled'.result = "Ready"
              /\ plan'.phase = "ExecutingMove"
              /\ plan'.current_plan.some
              /\ plan'.current_plan.target_position = polled'.target
              /\ plan'.pending_target = plan.pending_target
        /\ (plan.phase = "ExecutingMove" /\ ~plan.pending_target.some) =>
              /\ polled'.result = "Ready"
              /\ plan'.pending_target = Some(polled'.target)
              /\ plan'.current_plan = plan.current_plan
              /\ plan'.phase = "ExecutingMove"
        /\ (plan.phase = "ExecutingMove" /\ plan.pending_target.some) =>
              /\ polled'.result = "Pending"
              /\ plan'.waker
              /\ plan'.pending_target = plan.pending_target
              /\ plan'.current_plan = plan.current_plan]_vars

\* The buffer is full: a third target was polled while a move executes and a
\* different target is pending.
C20_Witness ==
    /\ polled.result = "Pending"
    /\ plan.phase = "ExecutingMove"
    /\ plan.pending_target.some
    /\ plan.pending_target.val # polled.target
    /\ plan.waker

\* C21: StreamingPlan::finish discards the pending target and wakes the
\* waiting add_target, and leaves the move in progress alone. The calls of
\* next that follow it yield segments of that move only, their distances sum
\* to the move's target minus its start when next first returns None, no
\* other move is started, and next returns None from then on.
C21_FinishDrains ==
    [][/\ (plan'.finished /\ ~plan.finished) =>
            /\ ~plan'.pending_target.some
            /\ ~plan'.waker
            /\ plan'.current_plan = plan.current_plan
            /\ plan'.phase = plan.phase
       /\ (plan.finished /\ plan'.finished /\ plan' # plan) =>
            /\ plan'.phase # "Panicked"
            /\ ~plan'.pending_target.some
            /\ plan'.origin = plan.origin
            /\ plan'.current_plan.target_position = plan.current_plan.target_position
            /\ plan.phase # "ExecutingMove" => ~plan'.item.some
            /\ (plan.phase = "ExecutingMove" /\ ~plan'.item.some) =>
                  /\ plan'.phase = "WaitingForTarget"
                  /\ plan'.moved = plan.current_plan.target_position - plan.origin]_vars

\* C22: for every Plan, the signed distances of the segments it emits sum to
\* target - start (within 0.1 mm), every segment has the sign of
\* target - start, and after the last segment the plan's position is the
\* target.
C22_Tolerance == ONE \div 10

C22_PlanReachesTarget ==
    /\ trapezoid.some => trapezoid.pointed
    /\ (trapezoid.some /\ trapezoid.done) =>
          /\ unsigned_abs(trapezoid.sum
                - (trapezoid.plan.target_position - trapezoid.start)) < C22_Tolerance
          /\ trapezoid.plan.current_position = trapezoid.plan.target_position

\* dist * k as a saturating product would give it.
SaturatingMul(a, k) ==
    IF MulIntOverflows(a, k) THEN (IF a > 0 THEN I32_MAX ELSE I32_MIN) ELSE a * k

\* C23: for every RapidMove and LinearMove the planner's step and speed
\* computation completes without a division by zero or an overflow fault, and
\* without wraparound: a product out of range saturates, so the steps passed
\* to do_move are those of the saturated product.
C23_PlannerMathSaturates ==
    /\ ppc # "panicked"
    /\ (Executed /\ IsMove(cur.command)) =>
          \A i \in 1..AXES :
              steps[i] =
                  IF axes[i].unit = "Millimeters"
                  THEN to_i32(FixDiv(
                          SaturatingMul(MoveDist(prev.position, cur.command.target)[i], 1000),
                          axes[i].microns_per_step))
                  ELSE to_i32(FixDiv(
                          SaturatingMul(MoveDist(prev.position, cur.command.target)[i], 360),
                          axes[i].degrees_per_step))

\* C24: in every do_move or home call the planner issues, an axis whose
\* speed is StepsPerSecond(0) has no steps to emit: do_move pairs a zero speed
\* with a zero step count only, and home starts no axis at speed zero.
C24_ZeroSpeedZeroSteps ==
    /\ (Executed /\ IsMove(cur.command)) =>
          \A i \in 1..AXES : speed[i] = 0 => steps[i] = 0
    /\ (Executed /\ cur.command = Home) =>
          \A i \in 1..2 : zero_limit[i] => speed[i] # 0

\* C25: the feedrate is 1 mm/s at boot; a move whose target carries F
\* replaces it before that move's speeds are computed (a move of F alone is
\* passed the new feedrate in X steps per second); a move without F and every
\* other command leave it as it was, so that it is the last F seen.
C25_FeedrateIsLastF ==
    /\ [](cur = NoCur => feedrate = ONE)
    /\ [][feedrate' # feedrate =>
             /\ ppc = "execute"
             /\ IsMove(cur.command)
             /\ cur.command.target[FEED].some
             /\ feedrate' = cur.command.target[FEED].val]_vars
    /\ []((Executed /\ IsMove(cur.command) /\ cur.command.target[FEED].some) =>
             /\ feedrate = cur.command.target[FEED].val
             /\ (\A i \in 1..AXES : ~cur.command.target[i].some) =>
                    speed[1] = (cur.command.target[FEED].val * 1000)
                                   \div axes[1].microns_per_step)
    /\ []((Executed /\ ~(IsMove(cur.command) /\ cur.command.target[FEED].some)) =>
             feedrate = prev.feedrate)

\* C25 witness: a command other than a move has executed under a feedrate
\* that an earlier move's F set, away from the boot value.
C25_Witness ==
    /\ Executed
    /\ cur.command = Dwell
    /\ feedrate = 2 * ONE

\* A speed in millimetres per second as steps per second of axis i: microns
\* over microns per step, the fraction discarded.
StepsPerSecondOf(millimeters_per_second, i) ==
    (millimeters_per_second * 1000) \div axes[i].microns_per_step

\* feedrate / sqrt(1 + r^2) with r = |near| / |along|.
AlongTriangle(along, near) ==
    FixDiv(feedrate,
           fast_sqrt(ONE + FixMul(FixDiv(unsigned_abs(near), unsigned_abs(along)),
                                  FixDiv(unsigned_abs(near), unsigned_abs(along)))))

\* C26: when C does not move, the speeds passed to do_move are: with only X
\* moving the feedrate in X steps per second and 0, 0; with only Z moving 0,
\* the feedrate in Z steps per second, 0; with both moving, X gets
\* feedrate / sqrt(1 + r^2) for r = |D_z| / |D_x|, Z gets
\* feedrate / sqrt(1 + (1/r)^2), each in steps per second, and C gets 0.
C26_SpeedsWithoutC ==
    (Executed /\ IsMove(cur.command) /\ MovedBy(3) = 0) =>
        /\ speed[3] = 0
        /\ (MovedBy(1) # 0 /\ MovedBy(2) = 0) =>
              speed = <<StepsPerSecondOf(feedrate, 1), 0, 0>>
        /\ (MovedBy(1) = 0 /\ MovedBy(2) # 0) =>
              speed = <<0, StepsPerSecondOf(feedrate, 2), 0>>
        /\ (MovedBy(1) # 0 /\ MovedBy(2) # 0) =>
              /\ speed[1] = StepsPerSecondOf(AlongTriangle(MovedBy(1), MovedBy(2)), 1)
              /\ speed[2] = StepsPerSecondOf(AlongTriangle(MovedBy(2), MovedBy(1)), 2)

\* C26 witness: X3 Z4 F5 from the origin has executed on the machine's axes,
\* and X was passed 3 mm/s and Z 4 mm/s in steps per second.
C26_Witness ==
    /\ Executed
    /\ IsMove(cur.command)
    /\ axes = ScenarioAxes
    /\ prev.position = Zero
    /\ cur.command.target = <<Some(3 * ONE), Some(4 * ONE), None, Some(5 * ONE)>>
    /\ speed = <<StepsPerSecondOf(3 * ONE, 1), StepsPerSecondOf(4 * ONE, 2), 0>>
    /\ speed = <<250, 666, 0>>

\* The duration of the move just executed, in 1/1024 s: |steps[2]| over
\* speed[2].
Duration == (unsigned_abs(steps[3]) * ONE) \div speed[3]

C28_DoMoveIsBarrier ==
    [][(fut.kind = "do_move" /\ fut.pc # "idle" /\ fut'.pc = "idle") =>
          /\ fut.pc = "await"
          /\ fut.awaiting = {}
          /\ \A i \in 1..AXES :
                /\ sm[i].run = "origin"
                /\ sm[i].tx = <<>>
                /\ sm'[i] = [enabled |-> FALSE, tx |-> <<>>, run |-> "origin",
                             irq |-> FALSE]]_vars

\* C28 witness: a do_move that stepped an axis forward has returned, and the
\* state machines are disabled.
C28_Witness ==
    /\ fut = NoFut
    /\ configured_program = "Steps"
    /\ \E i \in 1..AXES : dir_pin[i] = "High"
    /\ \A i \in 1..AXES : ~sm[i].enabled /\ sm[i].run = "origin"

\* C29: home selects the Home program, and for exactly the axes with a
\* zero-limit pin it sets the direction low, pushes one speed word and enables
\* the state machine in its batch; it then waits for the IRQs of exactly those
\* axes, never for the IRQ of an axis it did not start.
C29_HomeAwaitsHomingAxes ==
    [][(fut.kind = "home" /\ fut.pc = "push" /\ fut'.pc = "await") =>
          /\ configured_program = "Home"
          /\ \A i \in 1..AXES :
                /\ zero_limit[i] => (dir_pin[i] = "Low" /\ sm'[i].enabled)
                /\ ~zero_limit[i] => sm'[i] = sm[i]
          /\ fut'.awaiting = {i \in 1..AXES : zero_limit[i]}]_vars

\* C30: Dwell, EnableAllSteppers, GetCurrentPosition and Park leave position,
\* is_homed and feedrate unchanged and push no word to any axis: the state
\* machines, the direction pins and the program stay as they are, and no
\* do_move is issued. EnableAllSteppers drives the sleep pin high and the
\* other three leave it.
C30_IdleCommandsChangeNothing ==
    [][(ppc = "execute" /\ cur.command.kind \in
            {"Dwell", "EnableAllSteppers", "GetCurrentPosition", "Park"}) =>
          /\ position' = position
          /\ is_homed' = is_homed
          /\ feedrate' = feedrate
          /\ sm' = sm
          /\ dir_pin' = dir_pin
          /\ configured_program' = configured_program
          /\ steps' = steps /\ speed' = speed
          /\ sleep_pin' = IF cur.command = EnableAllSteppers
                          THEN "High"
                          ELSE sleep_pin
          /\ ppc' = "publish"]_vars

\* C30 witness: away from the origin and from the boot feedrate, an
\* EnableAllSteppers has raised the sleep pin.
C30_Witness ==
    /\ Executed
    /\ cur.command = EnableAllSteppers
    /\ prev.sleep_pin = "Low" /\ sleep_pin = "High"
    /\ position # Zero
    /\ feedrate # ONE

\* The sleep cycles per step of n steps per second: 500000 for n = 0, else
\* floor(500000 / n) - 4, and 0 where that is negative.
SleepCycles(n) ==
    IF n = 0
    THEN 500000
    ELSE IF 500000 \div n - 4 > 0 THEN 500000 \div n - 4 ELSE 0

\* C31: the sleeps word do_move pushes for StepsPerSecond(n) is
\* max(0, floor(500000 / n) - 4) for n > 0 and 500000 for n = 0, and the
\* translation never faults.
C31_SpeedEncoding ==
    [][(fut.pc = "push" /\ fut.kind \in {"do_move", "a4988_do_move"}) =>
          /\ fut'.pc # "panicked"
          /\ fut.n % 2 = 1 =>
                sm'[fut.n \div 2 + 1].tx =
                    Append(sm[fut.n \div 2 + 1].tx,
                           SleepCycles(fut.speeds[fut.n \div 2 + 1]))]_vars

\* C32: a Plan whose start equals its target emits no segment, whatever its
\* entry velocity and its max_accel > 0: its first next returns None.
C32_NoMoveSamePosition ==
    (trapezoid.some /\ trapezoid.start = trapezoid.plan.target_position) =>
        /\ trapezoid.segments = 0
        /\ ~trapezoid.item.some
        /\ trapezoid.sum = 0

C32_Witness ==
    /\ trapezoid.some
    /\ trapezoid.done
    /\ trapezoid.start = trapezoid.plan.target_position
    /\ trapezoid.start = 10 * ONE
    /\ trapezoid.plan.current_velocity = 5 * ONE
    /\ trapezoid.plan.max_accel = 1
    /\ trapezoid.segments = 0

\* C33: every segment a Plan with start # target emits has a signed distance
\* other than zero and an average speed above zero.
C33_SegmentsMove ==
    (trapezoid.some /\ trapezoid.item.some
        /\ trapezoid.start # trapezoid.plan.target_position) =>
        /\ trapezoid.item.dist # 0
        /\ trapezoid.item.speed > 0

\* C39: the iteration of a Plan ends: it emits at most three segments and is
\* Complete after the third, next returns None only in the phase Complete, a
\* segment of the Cruising phase is followed by the last segment or by None,
\* and a Complete plan returns None and stays as it is.
C39_PlanTerminates ==
    trapezoid.some =>
        /\ trapezoid.segments <= 3
        /\ trapezoid.segments = 3 => trapezoid.plan.phase = "Complete"
        /\ trapezoid.done => trapezoid.plan.phase = "Complete"
        /\ Only({/\ trapezoid.plan.phase = "Complete" =>
                        r = [plan |-> trapezoid.plan, item |-> NoSegment]
                 /\ ~r.item.some => r.plan.phase = "Complete"
                 /\ (trapezoid.plan.phase = "Cruising" /\ r.plan.phase = "Cruising") =>
                        plan_next(r.plan).plan.phase = "Complete"
                    : r \in {plan_next(trapezoid.plan)}})

C39_Witness ==
    /\ trapezoid.some
    /\ trapezoid.segments = 3
    /\ trapezoid.done
    /\ trapezoid.plan.phase = "Complete"

\* C35: a StreamingPlan fed targets above or below its position and drained
\* has emitted, for each move, distances that sum to the move's target minus
\* the position the move started from, which is the target of the move before
\* it, and its tracked position is the last target: the distances of all its
\* segments sum to the last target minus the start. An Idle plan and a
\* drained plan yield None and stay as they are.
C35_DrainedPlanIsAtTarget ==
    /\ plan.phase # "Panicked"
    /\ plan.phase = "ExecutingMove" =>
          plan.current_position = plan.origin + plan.moved
    /\ plan.phase = "WaitingForTarget" =>
          /\ plan.moved = plan.current_plan.target_position - plan.origin
          /\ plan.current_position = plan.current_plan.target_position
    /\ plan.phase \in {"Idle", "WaitingForTarget"} =>
          next(plan) = [plan EXCEPT !.item = NoSegment]

\* A pending target leaves its slot only when finish discards it or when next
\* starts the move to it, which takes the waker of the add_target that
\* returned Pending.
PendingTargetIsConsumed ==
    (plan.pending_target.some /\ plan'.pending_target # plan.pending_target
        /\ ~(plan'.finished /\ ~plan.finished)) =>
        /\ ~plan'.pending_target.some
        /\ plan'.current_plan.target_position = plan.pending_target.val
        /\ ~plan'.waker

\* An add_target that returned Pending returns Ready in the end, unless next
\* has panicked and can no longer be called.
BlockedAddTargetCompletes ==
    \A target \in PlanTargets :
        (polled.result = "Pending" /\ polled.target = target)
            ~> \/ polled.result = "Ready" /\ polled.target = target
               \/ plan.phase = "Panicked"

C36_NoChannelDeadlock ==
    ~(/\ spc = "send"
      /\ IsFull(command_channel)
      /\ ppc = "publish"
      /\ IsFull(status_channel))

\* C37: a complete line the server has read is dispatched or rejected without
\* further bytes from the host: the server never waits in its select, on a
\* connection that is up, with a complete line at the front of its buffer.
C37_BufferedLinesAreDispatched ==
    (spc = "select" /\ sock = "open") => (buf = <<>> \/ Head(buf) = Partial)

\* C38: whenever the planner waits for its next command, the three state
\* machines are disabled and their TX FIFOs are empty, after a Home too.
C38_IdlePlannerIdleStateMachines ==
    ppc = "receive" =>
        \A i \in 1..AXES : ~sm[i].enabled /\ sm[i].tx = <<>>

\* All commands of the program are acked and every (done id) has been
\* received and counted.
AllDoneReceived ==
    /\ client.main = "join"
    /\ client.sent_commands = {}
    /\ client.done_ch = <<>>
    /\ client.run_bar = MaxProgram

\* C40: the client in Run mode goes on to return once every command is sent
\* and acked and every (done id) received, and a Client::send that waits for
\* its ack goes on to return an ack or an error: in neither place does the
\* client come to a stop.
C40_ClientRunReturns ==
    (client.some /\ (client.main = "await_ack" \/ AllDoneReceived)) =>
        ENABLED ClientNext

====
